---- MODULE Spec2Model ----
(***************************************************************************)
(* Structured memory of openclaw: the SQLite-backed store                  *)
(* (structured-store.ts), the compression engine (compression-engine.ts),  *)
(* the markdown reconciler (markdown-sync.ts) and the backend facade       *)
(* (structured-backend.ts).                                                *)
(*                                                                         *)
(* Time is counted in whole days since 1970-01-01 (the source counts       *)
(* milliseconds; 86400000 of them are one unit here).  Local time is UTC.  *)
(* Text is modelled by its set of whitespace-separated lowercase words.    *)
(***************************************************************************)
EXTENDS Integers, Sequences, FiniteSets, TLC

VARIABLES
    now,            \* Date.now(), in days
    db,             \* the tables of the SQLite database and the uuid source
    fs,             \* the markdown files of the workspace: path -> file
    pass,           \* the sync / compress calls in flight, by slot
    debounceTimer,  \* MarkdownSyncManager.debounceTimer
    closed,         \* StructuredMemoryBackend.closed
    seen,           \* per path, the file version syncFile last handled (observation only)
    last,           \* what the last operation selected and produced (observation only)
    clockMs,        \* the event loop's clock, in milliseconds
    timerDue,       \* the time at which the debounce timer is due, -1 for no timer
    burst           \* the watcher events since the timer was last set on no timer (observation only)

\* The debounce window is far below a day: the clock in milliseconds and
\* the timer's due time are followed in the timed behaviours (SpecDebounce)
\* only; in the others the timer fires at any moment.
timing == <<clockMs, timerDue, burst>>

vars == <<now, db, fs, pass, debounceTimer, closed, seen, last, timing>>

\* no watcher event yet
NoBurst == [ events |-> 0, firstEvent |-> 0, lastEvent |-> 0, starts |-> 0, startedAt |-> 0 ]

----------------------------------------------------------------------------
(* Bounds of the model *)

\* rows ever inserted into structured_memories (ids 1..MaxMem)
MaxMem == 4

\* createMemory calls made from outside the engine
MaxCreate == 2

\* sync / compress calls that may be in flight at once
MaxPasses == 2

\* rows of memory_access_log
MaxLog == 1

\* rows ever inserted while files are reconciled
MaxSynced == 3

\* rows in the database when a compress() call with failures may start
MaxStored == 4

\* days that pass while files are reconciled
MaxDays == 1

(* No value: SQL NULL / undefined *)
NoTime == -1

----------------------------------------------------------------------------
(* Configuration of the modelled instance *)

\* compression.dailyToWeekly "7d", weeklyToMonthly "30d", archiveAfter "90d"
DailyToWeeklyDays == 7
WeeklyToMonthlyDays == 30
ArchiveAfterDays == 90

\* compression.minMemoriesForSummary; the default is 5, the modelled
\* instance is configured with 2 ({...defaults, ...params.config.compression})
MinMemoriesForSummary == 2

\* the monthly stage's fixed minimum group size
MinMonthlyGroup == 2

----------------------------------------------------------------------------
(* Calendar: Date.getFullYear / getMonth / getUTCDay on a day number *)

CivilFromDays(z) ==
    LET zz  == z + 719468
        era == zz \div 146097
        doe == zz - era * 146097
        yoe == (doe - doe \div 1460 + doe \div 36524 - doe \div 146096) \div 365
        doy == doe - (365 * yoe + yoe \div 4 - yoe \div 100)
        mp  == (5 * doy + 2) \div 153
        d   == doy - (153 * mp + 2) \div 5 + 1
        m   == IF mp < 10 THEN mp + 3 ELSE mp - 9
        y   == yoe + era * 400 + (IF m <= 2 THEN 1 ELSE 0)
    IN  [year |-> y, month |-> m, day |-> d]

DaysFromCivil(y, m, d) ==
    LET yy  == IF m <= 2 THEN y - 1 ELSE y
        era == yy \div 400
        yoe == yy - era * 400
        doy == (153 * (IF m > 2 THEN m - 3 ELSE m + 9) + 2) \div 5 + d - 1
        doe == yoe * 365 + yoe \div 4 - yoe \div 100 + doy
    IN  era * 146097 + doe - 719468

getFullYear(z) == CivilFromDays(z).year

getMonth(z) == CivilFromDays(z).month - 1

\* 0 = Sunday; 1970-01-01 was a Thursday
getUTCDay(z) == (z + 4) % 7

\* compression-engine.ts getWeekNumber
getWeekNumber(date) ==
    LET dayNum    == IF getUTCDay(date) = 0 THEN 7 ELSE getUTCDay(date)
        d         == date + 4 - dayNum
        yearStart == DaysFromCivil(getFullYear(d), 1, 1)
    IN  ((d - yearStart) + 1 + 6) \div 7

\* the Map key `${year}-W${week}` of groupByWeek
WeekKey(m) == <<getFullYear(m.createdAt), getWeekNumber(m.createdAt)>>

\* the Map key `${year}-${month}` of groupByMonth
MonthKey(m) == <<getFullYear(m.createdAt), getMonth(m.createdAt) + 1>>

----------------------------------------------------------------------------
(* The clock: the days at which the model looks at the system.            *)
(* 2024-05-30 is a Thursday; the days span two ISO weeks within May/June, *)
(* and reach past each of the three age thresholds.                       *)

StartDay == DaysFromCivil(2024, 5, 30)

ClockDays == { StartDay, StartDay + 8, StartDay + 40, StartDay + 100 }

----------------------------------------------------------------------------
(* Helpers on sets and sequences *)

Range(s) == { s[i] : i \in DOMAIN s }

Max(a, b) == IF a >= b THEN a ELSE b

SetMax(S) ==
    IF S = {} THEN 0
    ELSE LET x == CHOOSE v \in S : \A w \in S : v >= w
         IN  x

RECURSIVE SetToSeqBy(_, _)
\* the elements of S as a sequence, smallest rank first (rank is injective)
SetToSeqBy(S, rank) ==
    IF S = {} THEN <<>>
    ELSE LET x == CHOOSE v \in S : \A w \in S : rank[v] <= rank[w]
         IN  <<x>> \o SetToSeqBy(S \ {x}, rank)

----------------------------------------------------------------------------
(* The store: structured-store.ts *)

Mem(d) == d.structured_memories

Ids(d) == DOMAIN d.structured_memories

\* ensureStructuredMemorySchema on a new database file
EmptyDb ==
    [ structured_memories |-> <<>>,
      tags                |-> <<>>,
      memory_tags         |-> {},
      memory_access_log   |-> <<>>,
      memory_relations    |-> {},
      nextId              |-> 1 ]

\* INSERT INTO tags ... / INSERT OR IGNORE INTO memory_tags ... /
\* UPDATE tags SET memory_count = (SELECT COUNT(*) ...) for one tag name
LinkTag(d, memoryId, tagName) ==
    LET links == d.memory_tags \cup {<<memoryId, tagName>>}
        count == Cardinality({ l \in links : l[2] = tagName })
    IN  [d EXCEPT !.memory_tags = links,
                  !.tags = [t \in DOMAIN d.tags \cup {tagName} |->
                               IF t = tagName THEN count ELSE d.tags[t]]]

RECURSIVE LinkTags(_, _, _)
LinkTags(d, memoryId, tagNames) ==
    IF tagNames = <<>> THEN d
    ELSE LinkTags(LinkTag(d, memoryId, Head(tagNames)), memoryId, Tail(tagNames))

setTagsForMemory(d, memoryId, tagNames) ==
    LinkTags([d EXCEPT !.memory_tags = { l \in @ : l[1] # memoryId }],
             memoryId, tagNames)

\* m: the fields the caller supplies; id, createdAt, updatedAt, accessCount
\* are set here.  The new row's id is d.nextId.
createMemory(d, t, m) ==
    LET id  == d.nextId
        row == [ content         |-> m.content,
                 sourcePath      |-> m.sourcePath,
                 memoryType      |-> m.memoryType,
                 importanceLevel |-> m.importanceLevel,
                 importanceScore |-> m.importanceScore,
                 createdAt       |-> t,
                 updatedAt       |-> t,
                 accessedAt      |-> NoTime,
                 accessCount     |-> 0,
                 compressedFrom  |-> IF "compressedFrom" \in DOMAIN m
                                     THEN m.compressedFrom ELSE <<>>,
                 compressionLevel |-> IF "compressionLevel" \in DOMAIN m
                                      THEN m.compressionLevel ELSE 0 ]
        d1  == [d EXCEPT !.structured_memories =
                             [i \in DOMAIN @ \cup {id} |-> IF i = id THEN row ELSE @[i]],
                         !.nextId = id + 1]
    IN  IF Len(m.tags) > 0 THEN setTagsForMemory(d1, id, m.tags) ELSE d1

\* The columns updateMemory writes: content, summary, memory_type,
\* importance_level, importance_score (and the tags); any other key of
\* `updates`, compressionLevel included, is not looked at.  updated_at is
\* written only together with one of those columns (sets.length > 1).
\* (mutant) an updateMemory that also writes compression_level
UpdatedRow_WritesLevel(row, t, updates) ==
    [f \in DOMAIN row |->
        IF f \in DOMAIN updates THEN updates[f]
        ELSE IF f = "updatedAt" THEN t
        ELSE row[f]]

\* the columns updateMemory writes; the text of a row's summary is not
\* part of the model's rows, only the fact that the column is written
UpdatedRow(row, t, updates) ==
    LET cols == DOMAIN updates \cap
                  {"content", "summary", "memoryType", "importanceLevel",
                   "importanceScore"}
    IN  IF cols = {} THEN row
        ELSE [f \in DOMAIN row |->
                 IF f \in cols THEN updates[f]
                 ELSE IF f = "updatedAt" THEN t
                 ELSE row[f]]

\* (mutant) updateMemory without `if (!existing) return null`
updateMemory_NoExistenceCheck(d, t, id, updates) ==
    LET d1 == IF "tags" \in DOMAIN updates
              THEN setTagsForMemory(d, id, updates.tags) ELSE d
    IN  [d1 EXCEPT !.structured_memories =
                      [i \in DOMAIN @ |-> IF i = id THEN UpdatedRow(@[i], t, updates)
                                          ELSE @[i]]]

updateMemory(d, t, id, updates) ==
    IF id \notin Ids(d) THEN d
    ELSE LET d1 == IF "tags" \in DOMAIN updates
                   THEN setTagsForMemory(d, id, updates.tags) ELSE d
         IN  [d1 EXCEPT !.structured_memories[id] = UpdatedRow(@, t, updates)]

\* (mutant) the DELETE without the ON DELETE CASCADE of the referring tables
DeleteRows_NoCascade(d, ids) ==
    [d EXCEPT !.structured_memories = [i \in DOMAIN @ \ ids |-> @[i]]]

\* DELETE FROM structured_memories WHERE id IN ids, with the schema's
\* ON DELETE CASCADE on memory_tags, memory_access_log and memory_relations
DeleteRows(d, ids) ==
    [d EXCEPT !.structured_memories = [i \in DOMAIN @ \ ids |-> @[i]],
              !.memory_tags = { l \in @ : l[1] \notin ids },
              !.memory_access_log = SelectSeq(@, LAMBDA r : r.memoryId \notin ids),
              !.memory_relations = { e \in @ : e[1] \notin ids /\ e[2] \notin ids }]

deleteMemory(d, id) == DeleteRows(d, {id})

\* (mutant) a connection that does not enforce foreign keys
recordAccessThrows_Unenforced(d, memoryId) == FALSE

\* the INSERT INTO memory_access_log of recordAccess violates the foreign
\* key on memory_id and throws (node:sqlite enforces foreign keys unless
\* the connection is opened with enableForeignKeyConstraints: false)
recordAccessThrows(d, memoryId) == memoryId \notin Ids(d)

\* memory_access_log.memory_id REFERENCES structured_memories(id): the
\* INSERT of a row for an unknown id fails and nothing is written; the
\* UPDATE ... WHERE id = ? changes the row of the id, if there is one
recordAccess(d, t, memoryId, action) ==
    IF recordAccessThrows(d, memoryId) THEN d
    ELSE LET logged == [d EXCEPT !.memory_access_log =
                           Append(@, [memoryId |-> memoryId, accessedAt |-> t,
                                      action |-> action])]
         IN  IF memoryId \in Ids(d)
             THEN [logged EXCEPT !.structured_memories[memoryId] =
                                    [@ EXCEPT !.accessCount = @ + 1, !.accessedAt = t]]
             ELSE logged

\* importance.decayFactor, accessBoost and recencyBoost, in hundredths
DecayFactor == 95
AccessBoost == 5
RecencyBoost == 10

RECURSIVE Decayed(_, _)
\* importance_score * Math.pow(decayFactor, ageInDays), in hundredths and
\* rounded down day by day
Decayed(score, ageInDays) ==
    IF ageInDays <= 0 \/ score = 0 THEN score
    ELSE Decayed((score * DecayFactor) \div 100, ageInDays - 1)

\* (mutant) the sum of the three terms as it is, not clamped
NewScore_NoClamp(row, t) ==
    Decayed(row.importanceScore, t - row.createdAt)
      + row.accessCount * AccessBoost
      + (Max(0, 30 - (t - row.createdAt)) * RecencyBoost) \div 30

NewScore(row, t) ==
    LET ageInDays    == t - row.createdAt
        decayedScore == Decayed(row.importanceScore, ageInDays)
        accessBoost  == row.accessCount * AccessBoost
        recencyBoost == (Max(0, 30 - ageInDays) * RecencyBoost) \div 30
        sum          == decayedScore + accessBoost + recencyBoost
    IN  IF sum > 100 THEN 100 ELSE Max(0, sum)

\* UPDATE structured_memories SET importance_score = ? WHERE id = ?, for every row
recalculateImportance(d, t) ==
    [d EXCEPT !.structured_memories =
        [i \in Ids(d) |-> [Mem(d)[i] EXCEPT !.importanceScore = NewScore(Mem(d)[i], t)]]]

\* (mutant) the WHERE clause without its compression_level condition
ForCompressionFilter_NoLevel(row, olderThan, compressionLevel) ==
    /\ row.createdAt < olderThan
    /\ row.memoryType # "summary"

\* WHERE created_at < ? AND compression_level <= ? AND memory_type != 'summary'
ForCompressionFilter(row, olderThan, compressionLevel) ==
    /\ row.createdAt < olderThan
    /\ row.compressionLevel <= compressionLevel
    /\ row.memoryType # "summary"

\* ... ORDER BY created_at ASC LIMIT ?  (ids as the result rows; rows of one
\* created_at come in rowid order)
getMemoriesForCompression(d, olderThan, compressionLevel, limit) ==
    LET S    == { i \in Ids(d) :
                    ForCompressionFilter(Mem(d)[i], olderThan, compressionLevel) }
        rank == [i \in S |-> Mem(d)[i].createdAt * 1000 + i]
        all  == SetToSeqBy(S, rank)
    IN  SubSeq(all, 1, IF Len(all) < limit THEN Len(all) ELSE limit)

----------------------------------------------------------------------------
(* The compression engine: compression-engine.ts *)

RECURSIVE GroupInto(_, _, _)
\* the Map built by groupByWeek / groupByMonth: keys in order of first
\* appearance, each with its members in the order of `ids`
GroupInto(groups, ids, keyOf) ==
    IF ids = <<>> THEN groups
    ELSE LET i   == Head(ids)
             pos == { j \in DOMAIN groups : groups[j].key = keyOf[i] }
         IN  GroupInto(IF pos = {}
                       THEN Append(groups, [key |-> keyOf[i], members |-> <<i>>])
                       ELSE [groups EXCEPT ![CHOOSE j \in pos : TRUE].members = Append(@, i)],
                       Tail(ids), keyOf)

groupByWeek(rows, ids) ==
    GroupInto(<<>>, ids, [i \in Range(ids) |-> WeekKey(rows[i])])

groupByMonth(rows, ids) ==
    GroupInto(<<>>, ids, [i \in Range(ids) |-> MonthKey(rows[i])])

Pad2(n) == IF n < 10 THEN "0" \o ToString(n) ELSE ToString(n)

WeekPath(key) ==
    "memory/summaries/week-" \o ToString(key[1]) \o "-W" \o Pad2(key[2]) \o ".md"

MonthPath(key) ==
    "memory/summaries/month-" \o ToString(key[1]) \o "-" \o Pad2(key[2]) \o ".md"

\* The heuristic summary text "# Weekly Summary\n\nGenerated from N
\* memories.\n\n" (the key-topic and important-item lines it may append are
\* left out); it is never null and never empty.
generateSummary(rows, members, level) ==
    { "#", level, "summary", "generated", "from", ToString(Len(members)), "memories." }

RECURSIVE SumScores(_, _)
SumScores(rows, members) ==
    IF members = <<>> THEN 0
    ELSE rows[Head(members)].importanceScore + SumScores(rows, Tail(members))

\* scores are in hundredths
calculateAverageImportance(rows, members) ==
    LET sum == SumScores(rows, members)
        n   == Len(members)
    IN  IF sum > 80 * n THEN "critical"
        ELSE IF sum > 60 * n THEN "high"
        ELSE IF sum > 40 * n THEN "medium"
        ELSE "low"

\* (mutant) the score of the group's first member
MaxScore_First(rows, members) == rows[members[1]].importanceScore

\* Math.max(...memories.map((m) => m.importanceScore))
MaxScore(rows, members) ==
    SetMax({ rows[members[j]].importanceScore : j \in DOMAIN members })

RECURSIVE UpdateEach(_, _, _, _)
\* for (const mem of members) this.store.updateMemory(mem.id, updates)
UpdateEach(d, t, members, updates) ==
    IF members = <<>> THEN d
    ELSE UpdateEach(updateMemory(d, t, Head(members), updates), t, Tail(members), updates)

\* What may throw inside the try block of one group: generateSummary
\* ("summary"), the createMemory of the summary ("create"), or the first
\* updateMemory of a source ("update", the summary is stored by then).
Throws == { "summary", "create", "update" }

\* How the try block of one group goes: nothing throws and generateSummary
\* resolves to a text ("none"), generateSummary resolves to null, the other
\* value of its Promise<string | null> ("null"), or something throws.
FaultModes == { "none", "null" } \cup Throws

NoFaults == <<>>

FaultOf(faults, key) == IF key \in DOMAIN faults THEN faults[key] ELSE "none"

\* catch (err) { errors++ } of a group, after createMemory or before it
Caught(acc, fault, d1) ==
    IF fault = "update"
    THEN [acc EXCEPT !.db = d1, !.created = @ + 1, !.errors = @ + 1,
                     !.newIds = @ \cup {acc.db.nextId}]
    ELSE [acc EXCEPT !.errors = @ + 1]

\* (mutant) the loop body without the test of the group's size
WeeklyGroup_NoMinimum(acc, t, rows, g, fault) ==
    LET d1 == createMemory(acc.db, t,
                [ content          |-> generateSummary(rows, g.members, "weekly"),
                  sourcePath       |-> WeekPath(g.key),
                  memoryType       |-> "summary",
                  importanceLevel  |-> calculateAverageImportance(rows, g.members),
                  importanceScore  |-> MaxScore(rows, g.members),
                  tags             |-> <<"weekly-summary", "auto-generated">>,
                  compressedFrom   |-> g.members,
                  compressionLevel |-> 1 ])
    IN  IF fault \in Throws THEN Caught(acc, fault, d1)
        ELSE IF fault = "null" THEN acc
        ELSE [acc EXCEPT !.db = UpdateEach(d1, t, g.members, [compressionLevel |-> 1]),
                         !.created = @ + 1,
                         !.promoted = @ \cup {Range(g.members)},
                         !.newIds = @ \cup {acc.db.nextId}]

\* the body of compressToWeekly's loop for one group; acc carries the
\* database, the counters and what the pass has promoted
WeeklyGroup(acc, t, rows, g, fault) ==
    IF Len(g.members) < MinMemoriesForSummary THEN acc
    ELSE LET summary == IF fault = "null" THEN {}
                        ELSE generateSummary(rows, g.members, "weekly")
             d1 == createMemory(acc.db, t,
                     [ content          |-> summary,
                       sourcePath       |-> WeekPath(g.key),
                       memoryType       |-> "summary",
                       importanceLevel  |-> calculateAverageImportance(rows, g.members),
                       importanceScore  |-> MaxScore(rows, g.members),
                       tags             |-> <<"weekly-summary", "auto-generated">>,
                       compressedFrom   |-> g.members,
                       compressionLevel |-> 1 ])
             d2 == UpdateEach(d1, t, g.members, [compressionLevel |-> 1])
         IN  IF fault \in Throws THEN Caught(acc, fault, d1)
             ELSE IF summary = {} THEN acc
             ELSE [acc EXCEPT !.db = d2,
                              !.created = @ + 1,
                              !.promoted = @ \cup {Range(g.members)},
                              !.newIds = @ \cup {acc.db.nextId}]

\* (mutant) the loop body without `if (summary)`
MonthlyGroup_NoSummaryTest(acc, t, rows, g, fault) ==
    IF Len(g.members) < MinMonthlyGroup THEN acc
    ELSE LET d1 == createMemory(acc.db, t,
                     [ content          |-> IF fault = "null" THEN {}
                                            ELSE generateSummary(rows, g.members, "monthly"),
                       sourcePath       |-> MonthPath(g.key),
                       memoryType       |-> "summary",
                       importanceLevel  |-> "high",
                       importanceScore  |-> MaxScore(rows, g.members),
                       tags             |-> <<"monthly-summary", "auto-generated">>,
                       compressedFrom   |-> g.members,
                       compressionLevel |-> 2 ])
         IN  IF fault \in Throws THEN Caught(acc, fault, d1)
             ELSE [acc EXCEPT !.db = UpdateEach(d1, t, g.members, [compressionLevel |-> 2]),
                              !.created = @ + 1,
                              !.promoted = @ \cup {Range(g.members)},
                              !.newIds = @ \cup {acc.db.nextId}]

\* the body of compressToMonthly's loop for one group
MonthlyGroup(acc, t, rows, g, fault) ==
    IF Len(g.members) < MinMonthlyGroup THEN acc
    ELSE LET summary == IF fault = "null" THEN {}
                        ELSE generateSummary(rows, g.members, "monthly")
             d1 == createMemory(acc.db, t,
                     [ content          |-> summary,
                       sourcePath       |-> MonthPath(g.key),
                       memoryType       |-> "summary",
                       importanceLevel  |-> "high",
                       importanceScore  |-> MaxScore(rows, g.members),
                       tags             |-> <<"monthly-summary", "auto-generated">>,
                       compressedFrom   |-> g.members,
                       compressionLevel |-> 2 ])
             d2 == UpdateEach(d1, t, g.members, [compressionLevel |-> 2])
         IN  IF fault \in Throws THEN Caught(acc, fault, d1)
             ELSE IF summary = {} THEN acc
             ELSE [acc EXCEPT !.db = d2,
                              !.created = @ + 1,
                              !.promoted = @ \cup {Range(g.members)},
                              !.newIds = @ \cup {acc.db.nextId}]

RECURSIVE WeeklyLoop_AbortOnError(_, _, _, _, _)
\* (mutant) a loop that the first failing group ends
WeeklyLoop_AbortOnError(acc, t, rows, groups, faults) ==
    IF groups = <<>> THEN acc
    ELSE LET g    == Head(groups)
             next == WeeklyGroup(acc, t, rows, g, FaultOf(faults, g.key))
         IN  IF next.errors > acc.errors THEN next
             ELSE WeeklyLoop_AbortOnError(next, t, rows, Tail(groups), faults)

RECURSIVE WeeklyLoop(_, _, _, _, _)
WeeklyLoop(acc, t, rows, groups, faults) ==
    IF groups = <<>> THEN acc
    ELSE WeeklyLoop(WeeklyGroup(acc, t, rows, Head(groups), FaultOf(faults, Head(groups).key)),
                    t, rows, Tail(groups), faults)

RECURSIVE MonthlyLoop(_, _, _, _, _)
MonthlyLoop(acc, t, rows, groups, faults) ==
    IF groups = <<>> THEN acc
    ELSE MonthlyLoop(MonthlyGroup(acc, t, rows, Head(groups), FaultOf(faults, Head(groups).key)),
                     t, rows, Tail(groups), faults)

\* what a stage found in the rows it selected
Selection(rows, ids) ==
    { [id |-> ids[j], level |-> rows[ids[j]].compressionLevel] : j \in DOMAIN ids }

StageStart(d, op, t, rows, ids, groups, faults) ==
    [ db |-> d, op |-> op, created |-> 0, archived |-> 0, errors |-> 0,
      before |-> Ids(d), selected |-> Selection(rows, ids),
      promoted |-> {}, newIds |-> {}, groups |-> groups, faults |-> faults,
      rows |-> rows ]

\* the groups the weekly stage finds at time t
WeeklyGroups(d, t) ==
    groupByWeek(Mem(d), getMemoriesForCompression(d, t - DailyToWeeklyDays, 0, 1000))

\* the groups the monthly stage finds at time t
MonthlyGroups(d, t) ==
    groupByMonth(Mem(d), getMemoriesForCompression(d, t - WeeklyToMonthlyDays, 1, 1000))

compressToWeekly(d, t, faults) ==
    LET cutoff   == t - DailyToWeeklyDays
        memories == getMemoriesForCompression(d, cutoff, 0, 1000)
        rows     == Mem(d)
        groups   == groupByWeek(rows, memories)
    IN  WeeklyLoop(StageStart(d, "weekly", t, rows, memories, groups, faults), t, rows,
                   groups, faults)

compressToMonthly(d, t, faults) ==
    LET cutoff   == t - WeeklyToMonthlyDays
        memories == getMemoriesForCompression(d, cutoff, 1, 1000)
        rows     == Mem(d)
        groups   == groupByMonth(rows, memories)
    IN  MonthlyLoop(StageStart(d, "monthly", t, rows, memories, groups, faults), t, rows,
                    groups, faults)

RECURSIVE ArchiveLoop_NoAccessCheck(_, _, _, _, _)
\* (mutant) a loop that archives every selected row
ArchiveLoop_NoAccessCheck(acc, t, cutoff, rows, ids) ==
    IF ids = <<>> THEN acc
    ELSE ArchiveLoop_NoAccessCheck(
           [acc EXCEPT !.db = updateMemory(@, t, Head(ids), [memoryType |-> "archive"]),
                       !.archived = @ + 1,
                       !.promoted = @ \cup {{Head(ids)}}],
           t, cutoff, rows, Tail(ids))

RECURSIVE ArchiveLoop(_, _, _, _, _)
ArchiveLoop(acc, t, cutoff, rows, ids) ==
    IF ids = <<>> THEN acc
    ELSE LET id == Head(ids)
             recentlyAccessed == rows[id].accessedAt > 0 /\ rows[id].accessedAt > cutoff
         IN  ArchiveLoop(
               IF recentlyAccessed THEN acc
               ELSE [acc EXCEPT !.db = updateMemory(@, t, id, [memoryType |-> "archive"]),
                                !.archived = @ + 1,
                                !.promoted = @ \cup {{id}}],
               t, cutoff, rows, Tail(ids))

archiveOldMemories(d, t) ==
    LET cutoff   == t - ArchiveAfterDays
        memories == getMemoriesForCompression(d, cutoff, 2, 1000)
        rows     == Mem(d)
    IN  ArchiveLoop(StageStart(d, "archive", t, rows, memories, <<>>, NoFaults),
                    t, cutoff, rows, memories)

\* what is kept of a finished operation, for the properties below
NoOp ==
    [ op |-> "none", before |-> {}, selected |-> {}, promoted |-> {}, newIds |-> {},
      path |-> "", outcome |-> "", rowsBefore |-> <<>>, parsed |-> <<>>,
      file |-> <<>>, prev |-> <<>>, refs |-> <<{}, {}>>,
      groups |-> <<>>, faults |-> <<>>, rows |-> <<>>,
      created |-> 0, archived |-> 0, errors |-> 0, slot |-> 0, kind |-> "",
      score |-> 0, at |-> 0, since |-> -1,
      existingPaths |-> {}, listed |-> {}, removedPaths |-> {},
      logBefore |-> <<>>, id |-> 0, fields |-> {}, dbBefore |-> EmptyDb,
      level |-> 0, threw |-> FALSE, value |-> 0 ]

Observed(r) ==
    [NoOp EXCEPT !.op = r.op, !.before = r.before, !.selected = r.selected,
                 !.promoted = r.promoted, !.newIds = r.newIds,
                 !.groups = r.groups, !.faults = r.faults, !.rows = r.rows,
                 !.created = r.created, !.archived = r.archived, !.errors = r.errors]

----------------------------------------------------------------------------
(* The markdown files *)

Paths == { "MEMORY.md" }

\* the order in which listMemoryFiles reports the files
PathOrder == << "MEMORY.md" >>

\* A section of a file: the lowercase keywords of its heading line, the
\* hashtags of the heading, the words of the section and its length in
\* characters after trimming.
SecA  == [ header |-> {"notes"}, tags |-> <<"proj">>,
           words |-> {"alpha", "beta", "gamma"}, len |-> 60 ]
SecA2 == [ header |-> {"notes"}, tags |-> <<"proj">>,
           words |-> {"alpha", "beta", "gamma", "delta"}, len |-> 66 ]
SecB  == [ header |-> {"decision"}, tags |-> <<>>,
           words |-> {"one", "two", "three"}, len |-> 60 ]
SecB2 == [ header |-> {"decision"}, tags |-> <<>>,
           words |-> {"one", "two", "three", "four"}, len |-> 65 ]
SecS  == [ header |-> {"notes"}, tags |-> <<>>,
           words |-> {"hi"}, len |-> 10 ]

\* the texts a file may hold
Texts == { <<SecA, SecB>>, <<SecA2, SecB2>>, <<SecS>> }

NoFile == [ exists |-> FALSE, mtimeMs |-> 0, text |-> <<>> ]

\* listMemoryFiles + buildFileEntry: the files that exist, with their mtime
RECURSIVE ListFrom(_, _)
ListFrom(f, order) ==
    IF order = <<>> THEN <<>>
    ELSE (IF f[Head(order)].exists
          THEN << [path |-> Head(order), mtimeMs |-> f[Head(order)].mtimeMs] >>
          ELSE <<>>) \o ListFrom(f, Tail(order))

listMemoryFiles(f) == ListFrom(f, PathOrder)

----------------------------------------------------------------------------
(* The reconciler: markdown-sync.ts *)

\* sourcePath.includes("archive")
PathIncludesArchive(path) == path \in { "memory/archive.md" }

inferMemoryType(header, sourcePath) ==
    IF header \cap {"decision", "decided"} # {} THEN "decision"
    ELSE IF header \cap {"todo", "task"} # {} THEN "todo"
    ELSE IF header \cap {"preference", "like"} # {} THEN "preference"
    ELSE IF header \cap {"summary", "overview"} # {} THEN "summary"
    ELSE IF PathIncludesArchive(sourcePath) THEN "archive"
    ELSE "note"

\* sectionContent.length > 50
MinSectionLength == 50

RECURSIVE TotalLength(_)
\* content.trim().length: the sections and the line breaks between them
TotalLength(text) ==
    IF text = <<>> THEN 0
    ELSE Head(text).len + (IF Len(text) > 1 THEN 1 ELSE 0) + TotalLength(Tail(text))

RECURSIVE AllWords(_)
AllWords(text) == IF text = <<>> THEN {} ELSE Head(text).words \cup AllWords(Tail(text))

RECURSIVE FlushSections(_, _)
FlushSections(text, sourcePath) ==
    IF text = <<>> THEN <<>>
    ELSE (IF Head(text).len > MinSectionLength
          THEN << [ content    |-> Head(text).words,
                    memoryType |-> inferMemoryType(Head(text).header, sourcePath),
                    tags       |-> Head(text).tags ] >>
          ELSE <<>>) \o FlushSections(Tail(text), sourcePath)

parseMarkdownSections(text, sourcePath) ==
    LET sections == FlushSections(text, sourcePath)
    IN  IF sections = <<>> /\ TotalLength(text) > MinSectionLength
        THEN << [ content    |-> AllWords(text),
                  memoryType |-> inferMemoryType({}, sourcePath),
                  tags       |-> <<>> ] >>
        ELSE sections

\* SELECT DISTINCT source_path FROM structured_memories
getExistingSourcePaths(d) == { Mem(d)[i].sourcePath : i \in Ids(d) }

RowsOfPath(d, path) == { i \in Ids(d) : Mem(d)[i].sourcePath = path }

\* SELECT * FROM structured_memories WHERE source_path = ? LIMIT 1: some one
\* row of the path (the query names no order), or 0 for no row
getMemoryBySourcePath(d, path) ==
    IF RowsOfPath(d, path) = {} THEN {0} ELSE RowsOfPath(d, path)

\* intersection.size / Math.max(aWords.size, bWords.size), as a fraction
calculateSimilarity(a, b) ==
    [ num |-> Cardinality(a \cap b), den |-> Max(Cardinality(a), Cardinality(b)) ]

\* similarity > 0.7
findSectionByContent(existing, content) ==
    LET sim == calculateSimilarity(existing.content, content)
    IN  10 * sim.num > 7 * sim.den

NoRow == [ id |-> 0, content |-> {} ]

RECURSIVE SyncSections(_, _, _, _, _)
\* syncFile's loops over the parsed sections; `existing` is the row object
\* read before the file was read (NoRow: the path had no row)
SyncSections(d, t, path, existing, sections) ==
    IF sections = <<>> THEN d
    ELSE LET section == Head(sections)
             d1 == IF existing.id # 0 /\ findSectionByContent(existing, section.content)
                   THEN updateMemory(d, t, existing.id,
                          [content |-> section.content, memoryType |-> section.memoryType])
                   ELSE createMemory(d, t,
                          [ content         |-> section.content,
                            sourcePath      |-> path,
                            memoryType      |-> section.memoryType,
                            importanceLevel |-> "medium",
                            importanceScore |-> 50,
                            tags            |-> section.tags ])
         IN  SyncSections(d1, t, path, existing, Tail(sections))

\* the rows syncFile inserts for these sections
NewRows(existing, sections) ==
    Cardinality({ j \in DOMAIN sections :
                    ~ (existing.id # 0 /\ findSectionByContent(existing, sections[j].content)) })

\* DELETE FROM structured_memories WHERE source_path = ?
\* (mutant) a removal that deletes nothing
removeMemoriesForPath_Nothing(d, sourcePath) == d

\* DELETE FROM structured_memories WHERE source_path = ?
removeMemoriesForPath(d, sourcePath) == DeleteRows(d, RowsOfPath(d, sourcePath))

RECURSIVE RemoveAll(_, _)
RemoveAll(d, paths) ==
    IF paths = {} THEN d
    ELSE LET p == CHOOSE q \in paths : TRUE
         IN  RemoveAll(removeMemoriesForPath(d, p), paths \ {p})

----------------------------------------------------------------------------
(* Calls in flight.  A call runs in segments, from one await to the next;  *)
(* a segment is one step.                                                  *)

Slots == 1 .. MaxPasses

ZeroResult == [ added |-> 0, updated |-> 0, removed |-> 0, unchanged |-> 0 ]

IdlePass ==
    [ pc |-> "idle", kind |-> "none", entries |-> <<>>, existingPaths |-> {},
      i |-> 0, existing |-> NoRow, outcome |-> "", result |-> ZeroResult ]

InFlight == { k \in Slots : pass[k].pc # "idle" }

\* a free slot for a new call
FreeSlot(k) == pass[k].pc = "idle" /\ \A j \in Slots : j < k => pass[j].pc # "idle"

\* rows inserted by callers other than the engine and the reconciler
External(d) == { i \in Ids(d) : Mem(d)[i].sourcePath = "external" }

\* the tag links and the access-log rows that refer to the rows `ids`
RefsTo(d, ids) ==
    << { l \in d.memory_tags : l[1] \in ids },
       { r \in Range(d.memory_access_log) : r.memoryId \in ids } >>

\* no syncFile has handled the path since it or its rows last changed
NotSeen == [file |-> NoFile, outcome |-> ""]

----------------------------------------------------------------------------
(* Operations *)

\* what callers of createMemory supply
CreateInputs ==
    { [memoryType |-> "note", compressionLevel |-> 0],
      [memoryType |-> "note", compressionLevel |-> 1],
      [memoryType |-> "note", compressionLevel |-> 2],
      [memoryType |-> "summary", compressionLevel |-> 0] }

Scores == {50}

Init ==
    /\ now = StartDay
    /\ db = EmptyDb
    /\ fs = [p \in Paths |-> NoFile]
    /\ pass = [k \in Slots |-> IdlePass]
    /\ debounceTimer = "none"
    /\ closed = FALSE
    /\ clockMs = 0
    /\ timerDue = -1
    /\ burst = NoBurst
    /\ seen = [p \in Paths \cup {"external"} |-> NotSeen]
    /\ last = NoOp

\* time passes
Tick ==
    /\ \E t \in ClockDays : t > now /\ now' = t
    /\ last' = NoOp
    /\ UNCHANGED <<db, fs, pass, debounceTimer, closed, seen, timing>>

\* StructuredMemoryStore.createMemory called from outside the engine
CreateMemory ==
    /\ db.nextId <= MaxMem
    /\ Cardinality(External(db)) < MaxCreate
    /\ \E in \in CreateInputs, sc \in Scores :
          db' = createMemory(db, now,
                  [ content          |-> {"some", "text"},
                    sourcePath       |-> "external",
                    memoryType       |-> in.memoryType,
                    importanceLevel  |-> "medium",
                    importanceScore  |-> sc,
                    tags             |-> <<>>,
                    compressionLevel |-> in.compressionLevel ])
    /\ last' = [NoOp EXCEPT !.op = "create", !.before = Ids(db)]
    /\ UNCHANGED <<now, fs, pass, debounceTimer, closed, seen, timing>>

\* StructuredMemoryStore.recordAccess
RecordAccess ==
    /\ Len(db.memory_access_log) < MaxLog
    /\ \E id \in Ids(db) : db' = recordAccess(db, now, id, "read")
    /\ last' = [NoOp EXCEPT !.op = "access", !.before = Ids(db)]
    /\ UNCHANGED <<now, fs, pass, debounceTimer, closed, seen, timing>>

\* StructuredMemoryStore.deleteMemory
DeleteMemory ==
    /\ \E id \in Ids(db) :
          /\ db' = deleteMemory(db, id)
          /\ last' = [NoOp EXCEPT !.op = "delete", !.before = Ids(db),
                                  !.selected = {id},
                                  !.refs = RefsTo(db, {id})]
          /\ seen' = [seen EXCEPT ![Mem(db)[id].sourcePath] = NotSeen]
    /\ UNCHANGED <<now, fs, pass, debounceTimer, closed, timing>>

\* MemoryCompressionEngine.compress() is called
StartCompress ==
    /\ InFlight = {}
    /\ \E k \in Slots :
          /\ FreeSlot(k)
          /\ pass' = [pass EXCEPT ![k] = [IdlePass EXCEPT !.pc = "weekly", !.kind = "compress"]]
    /\ last' = NoOp
    /\ UNCHANGED <<now, db, fs, debounceTimer, closed, seen, timing>>

\* (mutant) a connection that close() leaves open
isOpen_Always(c) == TRUE

\* DatabaseSync: statements run on the connection until db.close(); after
\* it prepare() and run() throw
isOpen(c) == ~ c

\* compress(): the three stages run one after the other, each after an await
CompressWeekly(k) ==
    /\ pass[k].pc = "weekly"
    /\ isOpen(closed)
    /\ db.nextId <= MaxMem
    /\ LET r == compressToWeekly(db, now, NoFaults)
       IN  /\ db' = r.db
           /\ last' = Observed(r)
    /\ pass' = [pass EXCEPT ![k].pc = "monthly"]
    /\ UNCHANGED <<now, fs, debounceTimer, closed, seen, timing>>

CompressMonthly(k) ==
    /\ pass[k].pc = "monthly"
    /\ isOpen(closed)
    /\ db.nextId <= MaxMem
    /\ LET r == compressToMonthly(db, now, NoFaults)
       IN  /\ db' = r.db
           /\ last' = Observed(r)
    /\ pass' = [pass EXCEPT ![k].pc = "archive"]
    /\ UNCHANGED <<now, fs, debounceTimer, closed, seen, timing>>

ArchiveOld(k) ==
    /\ pass[k].pc = "archive"
    /\ isOpen(closed)
    /\ LET r == archiveOldMemories(db, now)
       IN  /\ db' = r.db
           /\ last' = Observed(r)
    /\ pass' = [pass EXCEPT ![k] = IF @.kind = "sync"
                                   THEN [@ EXCEPT !.pc = "recalc"] ELSE IdlePass]
    /\ UNCHANGED <<now, fs, debounceTimer, closed, seen, timing>>

Compress ==
    \E k \in Slots : CompressWeekly(k) \/ CompressMonthly(k) \/ ArchiveOld(k)

\* The store and the engine on their own
Next ==
    \/ Tick
    \/ CreateMemory
    \/ RecordAccess
    \/ StartCompress
    \/ Compress

Spec == Init /\ [][Next]_vars

----------------------------------------------------------------------------
(* The engine on a database that holds notes, with failing groups *)

RECURSIVE Populate(_, _)
\* createMemory called for each element of `notes`, at its time
Populate(d, notes) ==
    IF notes = <<>> THEN d
    ELSE Populate(createMemory(d, Head(notes).createdAt,
                    [ content         |-> {"some", "text"},
                      sourcePath      |-> "external",
                      memoryType      |-> "note",
                      importanceLevel |-> "medium",
                      importanceScore |-> Head(notes).importanceScore,
                      tags            |-> <<>> ]),
                  Tail(notes))

\* notes written in two ISO weeks (2024-W22 in May, 2024-W23 in June)
NoteDays == { StartDay, StartDay + 4 }

NoteScores == { 50, 90 }

\* the notes of a database file, in the order they were created
StoredNotes ==
    { ns \in UNION { [1 .. n -> [createdAt : NoteDays, importanceScore : NoteScores]] :
                       n \in 2 .. MaxStored } :
        \A j \in 1 .. Len(ns) - 1 : ns[j].createdAt <= ns[j + 1].createdAt }

\* the store and the engine are constructed on an existing database file
InitStored ==
    /\ now = StartDay + 4
    /\ \E ns \in StoredNotes : db = Populate(EmptyDb, ns)
    /\ fs = [p \in Paths |-> NoFile]
    /\ pass = [k \in Slots |-> IdlePass]
    /\ debounceTimer = "none"
    /\ closed = FALSE
    /\ clockMs = 0
    /\ timerDue = -1
    /\ burst = NoBurst
    /\ seen = [p \in Paths \cup {"external"} |-> NotSeen]
    /\ last = NoOp

\* the keys of the groups that reach the try block
EligibleKeys(groups, min) ==
    { groups[j].key : j \in { i \in DOMAIN groups : Len(groups[i].members) >= min } }

\* the weekly stage, where the try block of any group may throw
CompressWeeklyFaulty(k) ==
    /\ pass[k].pc = "weekly"
    /\ ~ closed
    /\ db.nextId <= MaxStored + 1
    /\ \E faults \in [EligibleKeys(WeeklyGroups(db, now), MinMemoriesForSummary) -> FaultModes] :
          LET r == compressToWeekly(db, now, faults)
          IN  /\ db' = r.db
              /\ last' = Observed(r)
    /\ pass' = [pass EXCEPT ![k].pc = "monthly"]
    /\ UNCHANGED <<now, fs, debounceTimer, closed, seen, timing>>

\* the monthly stage, where the try block of any group may throw
CompressMonthlyFaulty(k) ==
    /\ pass[k].pc = "monthly"
    /\ ~ closed
    /\ \E faults \in [EligibleKeys(MonthlyGroups(db, now), MinMonthlyGroup) -> FaultModes] :
          LET r == compressToMonthly(db, now, faults)
          IN  /\ db' = r.db
              /\ last' = Observed(r)
    /\ pass' = [pass EXCEPT ![k].pc = "archive"]
    /\ UNCHANGED <<now, fs, debounceTimer, closed, seen, timing>>

CompressFaulty ==
    \E k \in Slots : CompressWeeklyFaulty(k) \/ CompressMonthlyFaulty(k) \/ ArchiveOld(k)

NextFault ==
    \/ Tick
    \/ StartCompress
    \/ CompressFaulty

SpecFault == InitStored /\ [][NextFault]_vars

\* a day more than archiveAfter later than every day of ClockDays on which
\* a monthly summary can be created
FarDay == StartDay + 140

\* months pass
MonthsPass ==
    /\ now < FarDay
    /\ now' = FarDay
    /\ last' = NoOp
    /\ UNCHANGED <<db, fs, pass, debounceTimer, closed, seen, timing>>

\* The engine on a database that holds notes, over months
NextArchive ==
    \/ Tick
    \/ MonthsPass
    \/ StartCompress
    \/ Compress

SpecArchive == InitStored /\ [][NextArchive]_vars

----------------------------------------------------------------------------
(* parseDuration *)

\* the most characters of a duration string
MaxDuration == 3

\* the characters duration strings are made of
DurationChars == { "0", "2", "4", "7", "9", "d", "h", "m", "x" }

DurationStrings == UNION { [1 .. n -> DurationChars] : n \in 0 .. MaxDuration }

\* \d of the regular expression, with the value of each digit
DigitValue ==
    [ c \in { "0", "1", "2", "3", "4", "5", "6", "7", "8", "9" } |->
        CASE c = "0" -> 0 [] c = "1" -> 1 [] c = "2" -> 2 [] c = "3" -> 3
          [] c = "4" -> 4 [] c = "5" -> 5 [] c = "6" -> 6 [] c = "7" -> 7
          [] c = "8" -> 8 [] c = "9" -> 9 ]

\* results are in minutes: a millisecond count is MsPerMinute times as much
MsPerMinute == 60000

\* const multipliers, in minutes: d: 24 * 60 * 60 * 1000, h: 60 * 60 * 1000,
\* m: 60 * 1000 milliseconds
multipliers == [ u \in { "d", "h", "m" } |->
                   CASE u = "d" -> (24 * 60 * 60 * 1000) \div MsPerMinute
                     [] u = "h" -> (60 * 60 * 1000) \div MsPerMinute
                     [] u = "m" -> (60 * 1000) \div MsPerMinute ]

\* duration.match(/^(\d+)([dhm])$/)
DurationMatch(duration) ==
    /\ Len(duration) >= 2
    /\ \A j \in 1 .. Len(duration) - 1 : duration[j] \in DOMAIN DigitValue
    /\ duration[Len(duration)] \in DOMAIN multipliers

RECURSIVE parseInt(_)
\* parseInt(match[1], 10) of a string of decimal digits
parseInt(digits) ==
    IF digits = <<>> THEN 0
    ELSE parseInt(SubSeq(digits, 1, Len(digits) - 1)) * 10 + DigitValue[digits[Len(digits)]]

\* (mutant) a parseDuration that falls back to 7d
parseDuration_DefaultOnMismatch(duration) ==
    IF ~ DurationMatch(duration)
    THEN [ threw |-> FALSE, value |-> 7 * multipliers["d"] ]
    ELSE [ threw |-> FALSE,
           value |-> parseInt(SubSeq(duration, 1, Len(duration) - 1))
                       * multipliers[duration[Len(duration)]] ]

parseDuration(duration) ==
    IF ~ DurationMatch(duration)
    THEN [ threw |-> TRUE, value |-> 0 ]
    ELSE [ threw |-> FALSE,
           value |-> parseInt(SubSeq(duration, 1, Len(duration) - 1))
                       * multipliers[duration[Len(duration)]] ]

\* a duration string of the configuration, not parsed yet
InitDuration ==
    /\ now = StartDay
    /\ db = EmptyDb
    /\ fs = [p \in Paths |-> NoFile]
    /\ pass = [k \in Slots |-> IdlePass]
    /\ debounceTimer = "none"
    /\ closed = FALSE
    /\ clockMs = 0
    /\ timerDue = -1
    /\ burst = NoBurst
    /\ seen = [p \in Paths \cup {"external"} |-> NotSeen]
    /\ \E duration \in DurationStrings :
          last = [NoOp EXCEPT !.op = "duration", !.parsed = duration]

ParseDuration ==
    /\ last.op = "duration"
    /\ LET r == parseDuration(last.parsed)
       IN  last' = [last EXCEPT !.op = "parseDuration",
                                !.threw = r.threw, !.value = r.value]
    /\ UNCHANGED <<now, db, fs, pass, debounceTimer, closed, seen, timing>>

NextDuration == ParseDuration

SpecDuration == InitDuration /\ [][NextDuration]_vars

----------------------------------------------------------------------------
(* groupByWeek on its own *)

\* createdAt dates: the first week of January 2024 and the days around the
\* turn of the year 2024 / 2025
WeekDates ==
    { DaysFromCivil(2024, 1, 1) + j : j \in 0 .. 6 }
      \cup { DaysFromCivil(2024, 12, 23) + j : j \in 0 .. 16 }

\* two records the weekly stage has selected, by their createdAt
InitWeeks ==
    /\ now = StartDay
    /\ db = EmptyDb
    /\ fs = [p \in Paths |-> NoFile]
    /\ pass = [k \in Slots |-> IdlePass]
    /\ debounceTimer = "none"
    /\ closed = FALSE
    /\ clockMs = 0
    /\ timerDue = -1
    /\ burst = NoBurst
    /\ seen = [p \in Paths \cup {"external"} |-> NotSeen]
    /\ \E a, b \in WeekDates :
          last = [NoOp EXCEPT !.op = "dates", !.file = <<a, b>>]

\* MemoryCompressionEngine.groupByWeek on the two records
GroupByWeek ==
    /\ last.op = "dates"
    /\ LET rows   == [i \in 1 .. 2 |-> [createdAt |-> last.file[i]]]
           groups == groupByWeek(rows, <<1, 2>>)
       IN  last' = [last EXCEPT !.op = "groupByWeek",
                                !.groups = groups,
                                !.outcome = IF Len(groups) = 1 THEN "same" ELSE "different"]
    /\ UNCHANGED <<now, db, fs, pass, debounceTimer, closed, seen, timing>>

NextWeeks == GroupByWeek

SpecWeeks == InitWeeks /\ [][NextWeeks]_vars

----------------------------------------------------------------------------
(* findSectionByContent on its own *)

\* the words the two texts are made of
SimilarityWords == { "a", "b", "c", "d", "e" }

\* the content of the existing row and the content of a parsed section
InitSimilarity ==
    /\ now = StartDay
    /\ db = EmptyDb
    /\ fs = [p \in Paths |-> NoFile]
    /\ pass = [k \in Slots |-> IdlePass]
    /\ debounceTimer = "none"
    /\ closed = FALSE
    /\ clockMs = 0
    /\ timerDue = -1
    /\ burst = NoBurst
    /\ seen = [p \in Paths \cup {"external"} |-> NotSeen]
    /\ \E a, b \in SUBSET SimilarityWords \ {{}} :
          last = [NoOp EXCEPT !.op = "contents", !.file = <<a>>, !.parsed = <<b>>]

\* MarkdownSyncManager.findSectionByContent(existing, content): the existing
\* row (syncFile then updates it) or null (syncFile then inserts)
FindSection ==
    /\ last.op = "contents"
    /\ last' = [last EXCEPT !.op = "findSection",
                            !.outcome =
                               IF findSectionByContent([id |-> 1, content |-> last.file[1]],
                                                       last.parsed[1])
                               THEN "existing" ELSE "null"]
    /\ UNCHANGED <<now, db, fs, pass, debounceTimer, closed, seen, timing>>

NextSimilarity == FindSection

SpecSimilarity == InitSimilarity /\ [][NextSimilarity]_vars

----------------------------------------------------------------------------
(* The engine when a call of generateSummary never settles *)

\* how the await of generateSummary goes for a group: it resolves, or the
\* promise is never settled ("hang")
AwaitModes == { "none", "hang" }

\* the first group, in the order of the loop, whose await never ends; 0 if
\* every await ends
HangIndex(groups, faults, min) ==
    LET H == { j \in DOMAIN groups :
                 Len(groups[j].members) >= min /\ FaultOf(faults, groups[j].key) = "hang" }
    IN  IF H = {} THEN 0 ELSE CHOOSE j \in H : \A i \in H : j <= i

\* compressToWeekly as far as it gets: the groups before the first await
\* that never ends have been handled, the function is suspended at that
\* await (no timer, race or abort signal surrounds it)
compressToWeeklyAwaiting(d, t, faults) ==
    LET rows   == Mem(d)
        ids    == getMemoriesForCompression(d, t - DailyToWeeklyDays, 0, 1000)
        groups == groupByWeek(rows, ids)
        h      == HangIndex(groups, faults, MinMemoriesForSummary)
    IN  WeeklyLoop(StageStart(d, "weekly", t, rows, ids, groups, faults), t, rows,
                   IF h = 0 THEN groups ELSE SubSeq(groups, 1, h - 1), faults)

compressToMonthlyAwaiting(d, t, faults) ==
    LET rows   == Mem(d)
        ids    == getMemoriesForCompression(d, t - WeeklyToMonthlyDays, 1, 1000)
        groups == groupByMonth(rows, ids)
        h      == HangIndex(groups, faults, MinMonthlyGroup)
    IN  MonthlyLoop(StageStart(d, "monthly", t, rows, ids, groups, faults), t, rows,
                    IF h = 0 THEN groups ELSE SubSeq(groups, 1, h - 1), faults)

Suspended(r, min) == HangIndex(r.groups, r.faults, min) # 0

CompressWeeklyAwaiting(k) ==
    /\ pass[k].pc = "weekly"
    /\ ~ closed
    /\ db.nextId <= MaxStored + 1
    /\ \E faults \in [EligibleKeys(WeeklyGroups(db, now), MinMemoriesForSummary) -> AwaitModes] :
          LET r == compressToWeeklyAwaiting(db, now, faults)
          IN  /\ db' = r.db
              /\ last' = Observed(r)
              /\ pass' = [pass EXCEPT ![k].pc =
                            IF Suspended(r, MinMemoriesForSummary)
                            THEN "awaitingSummary" ELSE "monthly"]
    /\ UNCHANGED <<now, fs, debounceTimer, closed, seen, timing>>

CompressMonthlyAwaiting(k) ==
    /\ pass[k].pc = "monthly"
    /\ ~ closed
    /\ \E faults \in [EligibleKeys(MonthlyGroups(db, now), MinMonthlyGroup) -> AwaitModes] :
          LET r == compressToMonthlyAwaiting(db, now, faults)
          IN  /\ db' = r.db
              /\ last' = Observed(r)
              /\ pass' = [pass EXCEPT ![k].pc =
                            IF Suspended(r, MinMonthlyGroup)
                            THEN "awaitingSummary" ELSE "archive"]
    /\ UNCHANGED <<now, fs, debounceTimer, closed, seen, timing>>

CompressAwaiting ==
    \E k \in Slots : CompressWeeklyAwaiting(k) \/ CompressMonthlyAwaiting(k) \/ ArchiveOld(k)

\* compress() is called while the store has room for the summaries
StartAwaiting ==
    /\ db.nextId <= MaxStored + 1
    /\ StartCompress

NextHang ==
    \/ Tick
    \/ StartAwaiting
    \/ CompressAwaiting

\* the call in slot k is at the start of a stage and moves on: to the next
\* stage, to an await of generateSummary, or to its return
Resumes(k) ==
    /\ pass[k].pc \in {"weekly", "monthly", "archive"}
    /\ \/ \E pc \in {"monthly", "archive", "awaitingSummary"} :
             pass' = [pass EXCEPT ![k].pc = pc]
       \/ pass' = [pass EXCEPT ![k] = IdlePass]

\* an async function is resumed once the promise it awaits has settled: a
\* call of compress() that is at the start of a stage runs it
SpecHang ==
    /\ InitStored
    /\ [][NextHang]_vars
    /\ \A k \in Slots : WF_pass(Resumes(k))

----------------------------------------------------------------------------
(* Reconciliation *)

\* the watcher's add / change / unlink handler: scheduleSync()
scheduleSync == "pending"

\* this.watcher is set when the manager is constructed and is closed and
\* nulled by stopWatching, which only close() calls
Watching == ~ closed

\* a file of the tree is written (created or edited)
WriteFile ==
    /\ \E p \in Paths, text \in Texts :
          /\ fs[p].text # text
          \* the write is later than every write the store made for the path
          /\ \A i \in RowsOfPath(db, p) : Mem(db)[i].updatedAt < now
          /\ fs[p].exists => fs[p].mtimeMs < now
          /\ fs' = [fs EXCEPT ![p] = [exists |-> TRUE, mtimeMs |-> now, text |-> text]]
          /\ seen' = [seen EXCEPT ![p] = NotSeen]
    /\ debounceTimer' = IF Watching THEN scheduleSync ELSE debounceTimer
    /\ last' = NoOp
    /\ UNCHANGED <<now, db, pass, closed, timing>>

\* a file of the tree is removed
UnlinkFile ==
    /\ \E p \in Paths :
          /\ fs[p].exists
          /\ fs' = [fs EXCEPT ![p] = NoFile]
          /\ seen' = [seen EXCEPT ![p] = NotSeen]
    /\ debounceTimer' = IF Watching THEN scheduleSync ELSE debounceTimer
    /\ last' = NoOp
    /\ UNCHANGED <<now, db, pass, closed, timing>>

\* syncFromMarkdown() is entered: listMemoryFiles is awaited
BeginSync(k, kind) ==
    /\ FreeSlot(k)
    /\ pass' = [pass EXCEPT ![k] = [IdlePass EXCEPT !.pc = "listing", !.kind = kind]]
    /\ last' = NoOp
    /\ UNCHANGED <<now, db, fs, closed, seen, timing>>

\* (mutant) a sync() that goes from the reconciliation to the recalculation
Finished_SkipCompaction(ps) ==
    IF ps.kind = "sync" THEN [ps EXCEPT !.pc = "recalc"] ELSE IdlePass

\* syncFromMarkdown returns its result
Finished(ps) ==
    IF ps.kind = "sync" THEN [ps EXCEPT !.pc = "weekly"] ELSE IdlePass

\* The loop of syncFromMarkdown from entry i on, up to the next await:
\* syncFile(entries[i]) up to its return "unchanged" or its readFile; past
\* the last entry, the removal of the paths that are not listed.
ContinueAt(k, ps, i) ==
    IF i > Len(ps.entries)
    THEN LET listed  == { ps.entries[j].path : j \in DOMAIN ps.entries }
             gone    == ps.existingPaths \ listed
             removed == UNION { RowsOfPath(db, p) : p \in gone }
             res     == [ps.result EXCEPT !.removed = @ + Cardinality(gone)]
         IN  /\ db' = RemoveAll(db, gone)
             /\ pass' = [pass EXCEPT ![k] = Finished([ps EXCEPT !.result = res])]
             /\ last' = [NoOp EXCEPT !.op = "syncDone", !.before = Ids(db),
                                     !.selected = removed,
                                     !.refs = RefsTo(db, removed),
                                     !.parsed = <<res>>,
                                     !.existingPaths = ps.existingPaths,
                                     !.listed = listed,
                                     !.removedPaths =
                                        { Mem(db)[r].sourcePath : r \in removed }]
             /\ seen' = [p \in DOMAIN seen |-> IF p \in gone THEN NotSeen ELSE seen[p]]
    ELSE LET entry == ps.entries[i]
         IN  \E e \in getMemoryBySourcePath(db, entry.path) :
                IF e # 0 /\ Mem(db)[e].updatedAt >= entry.mtimeMs
                THEN /\ pass' = [pass EXCEPT ![k] =
                                   [ps EXCEPT !.pc = "resume", !.i = i, !.outcome = "unchanged"]]
                     /\ seen' = [seen EXCEPT ![entry.path] =
                                   [file |-> fs[entry.path], outcome |-> "unchanged"]]
                     /\ last' = [NoOp EXCEPT !.op = "syncFile", !.path = entry.path,
                                             !.outcome = "unchanged", !.before = Ids(db),
                                             !.file = <<fs[entry.path]>>,
                                             !.prev = <<seen[entry.path]>>]
                     /\ UNCHANGED db
                ELSE /\ pass' = [pass EXCEPT ![k] =
                                   [ps EXCEPT !.pc = "read", !.i = i,
                                              !.existing =
                                                 IF e = 0 THEN NoRow
                                                 ELSE [id |-> e, content |-> Mem(db)[e].content]]]
                     /\ last' = NoOp
                     /\ UNCHANGED <<db, seen>>

\* the listing has arrived: getExistingSourcePaths, then the loop
AfterListing(k) ==
    /\ pass[k].pc = "listing"
    /\ isOpen(closed)
    /\ ContinueAt(k, [pass[k] EXCEPT !.entries = listMemoryFiles(fs),
                                     !.existingPaths = getExistingSourcePaths(db)], 1)
    /\ UNCHANGED <<now, fs, debounceTimer, closed, timing>>

\* fs.readFile has returned the text of entry i: parse, write, return;
\* the store holds at most maxRows rows
AfterReadUpTo(k, maxRows) ==
    /\ pass[k].pc = "read"
    /\ isOpen(closed)
    /\ LET ps       == pass[k]
           entry    == ps.entries[ps.i]
           file     == fs[entry.path]
           sections == parseMarkdownSections(file.text, entry.path)
           outcome  == IF ps.existing.id # 0 THEN "updated" ELSE "added"
       IN  IF ~ file.exists
           THEN \* readFile rejects, and with it syncFile and syncFromMarkdown
                /\ pass' = [pass EXCEPT ![k] = IdlePass]
                /\ last' = [NoOp EXCEPT !.op = "syncFailed", !.path = entry.path,
                                        !.before = Ids(db), !.slot = k, !.kind = ps.kind]
                /\ UNCHANGED <<db, seen>>
           ELSE /\ db.nextId + NewRows(ps.existing, sections) <= maxRows + 1
                /\ db' = SyncSections(db, now, entry.path, ps.existing, sections)
                /\ pass' = [pass EXCEPT ![k] = [ps EXCEPT !.pc = "resume", !.outcome = outcome]]
                /\ seen' = [seen EXCEPT ![entry.path] = [file |-> file, outcome |-> outcome]]
                /\ last' = [NoOp EXCEPT !.op = "syncFile", !.path = entry.path,
                                        !.outcome = outcome, !.before = Ids(db),
                                        !.rowsBefore =
                                           [id \in RowsOfPath(db, entry.path) |->
                                               Mem(db)[id].content],
                                        !.parsed = sections,
                                        !.file = <<file>>,
                                        !.prev = <<seen[entry.path]>>]
    /\ UNCHANGED <<now, fs, debounceTimer, closed, timing>>

AfterRead(k) == AfterReadUpTo(k, MaxSynced)

\* syncFile has returned: result[syncResult]++, and the loop goes on
AfterFile(k) ==
    /\ pass[k].pc = "resume"
    /\ isOpen(closed)
    /\ ContinueAt(k, [pass[k] EXCEPT !.result[pass[k].outcome] = @ + 1, !.outcome = ""],
                  pass[k].i + 1)
    /\ UNCHANGED <<now, fs, debounceTimer, closed, timing>>

SyncStep == \E k \in Slots : AfterListing(k) \/ AfterRead(k) \/ AfterFile(k)

\* the debounce timer fires: syncFromMarkdown(); here no call is in flight
TimerFires ==
    /\ debounceTimer = "pending"
    /\ InFlight = {}
    /\ debounceTimer' = "fired"
    /\ \E k \in Slots : BeginSync(k, "syncFromMarkdown")

\* MarkdownSyncManager.syncFromMarkdown() is called; here no call is in flight
CallSync ==
    /\ InFlight = {}
    /\ \E k \in Slots : BeginSync(k, "syncFromMarkdown")
    /\ UNCHANGED debounceTimer

\* a day passes
Later ==
    /\ now < StartDay + MaxDays
    /\ now' = now + 1
    /\ last' = NoOp
    /\ UNCHANGED <<db, fs, pass, debounceTimer, closed, seen, timing>>

\* The reconciler, one pass at a time, with the store's API
NextSync ==
    \/ Later
    \/ CallSync
    \/ WriteFile
    \/ UnlinkFile
    \/ TimerFires
    \/ SyncStep
    \/ RecordAccess
    \/ DeleteMemory

SpecSync == Init /\ [][NextSync]_vars

----------------------------------------------------------------------------
(* The backend: structured-backend.ts *)

\* new StructuredMemoryBackend(...): the constructor has started the initial
\* sync and has not waited for it
InitBackend ==
    /\ now = StartDay
    /\ db = EmptyDb
    /\ fs = [p \in Paths |-> NoFile]
    /\ pass = [k \in Slots |->
                 IF k = 1 THEN [IdlePass EXCEPT !.pc = "listing", !.kind = "syncFromMarkdown"]
                 ELSE IdlePass]
    /\ debounceTimer = "none"
    /\ closed = FALSE
    /\ clockMs = 0
    /\ timerDue = -1
    /\ burst = NoBurst
    /\ seen = [p \in Paths \cup {"external"} |-> NotSeen]
    /\ last = NoOp

\* the debounce timer fires: syncFromMarkdown(), whatever else is in flight
TimerFiresAny ==
    /\ debounceTimer = "pending"
    /\ debounceTimer' = "fired"
    /\ \E k \in Slots : BeginSync(k, "syncFromMarkdown")

\* StructuredMemoryBackend.sync() is called
Sync ==
    /\ ~ closed
    /\ \E k \in Slots : BeginSync(k, "sync")
    /\ UNCHANGED debounceTimer

\* sync(): after compress(), recalculateImportance()
Recalc ==
    \E k \in Slots :
       /\ pass[k].pc = "recalc"
       /\ isOpen(closed)
       /\ db' = recalculateImportance(db, now)
       /\ pass' = [pass EXCEPT ![k] = IdlePass]
       /\ last' = [NoOp EXCEPT !.op = "recalc", !.before = Ids(db)]
       /\ UNCHANGED <<now, fs, debounceTimer, closed, seen, timing>>

\* (mutant) a close() that leaves the debounce timer as it is
stopWatching_KeepTimer(timer) == timer

\* stopWatching: watcher.close(), clearTimeout(debounceTimer), debounceTimer = null
stopWatching(timer) == "none"

\* StructuredMemoryBackend.close(): closed = true, stopWatching(), db.close()
Close ==
    /\ ~ closed
    /\ closed' = TRUE
    /\ debounceTimer' = stopWatching(debounceTimer)
    /\ last' = [NoOp EXCEPT !.op = "close", !.outcome = debounceTimer]
    /\ UNCHANGED <<now, db, fs, pass, seen, timing>>

\* a call in flight reaches its next statement on the closed connection:
\* the statement throws and the call ends, with nothing written
FailsClosed ==
    /\ closed
    /\ \E k \in InFlight : pass' = [pass EXCEPT ![k] = IdlePass]
    /\ last' = [NoOp EXCEPT !.op = "failsClosed"]
    /\ UNCHANGED <<now, db, fs, debounceTimer, closed, seen, timing>>

\* The backend with its watcher: calls start whenever they are made
NextConc ==
    \/ Close
    \/ FailsClosed
    \/ WriteFile
    \/ UnlinkFile
    \/ TimerFiresAny
    \/ Sync
    \/ SyncStep
    \/ Compress
    \/ Recalc

SpecConc == InitBackend /\ [][NextConc]_vars

\* The backend from its construction to close(): the watcher, its debounce
\* timer and the passes the timer starts
NextClose ==
    \/ Close
    \/ FailsClosed
    \/ WriteFile
    \/ UnlinkFile
    \/ TimerFiresAny
    \/ SyncStep

SpecClose == InitBackend /\ [][NextClose]_vars

\* sync() calls on a workspace whose file is written and removed
NextPhases ==
    \/ WriteFile
    \/ UnlinkFile
    \/ Sync
    \/ SyncStep
    \/ Compress
    \/ Recalc

SpecPhases == Init /\ [][NextPhases]_vars

\* time passes between two calls
Idle ==
    /\ InFlight = {}
    /\ Tick

\* sync() called when no other pass is in flight
SyncAlone ==
    /\ InFlight = {}
    /\ Sync

\* sync() calls over days: files are written, reconciled and compacted
NextPersist ==
    \/ Idle
    \/ WriteFile
    \/ SyncAlone
    \/ SyncStep
    \/ Compress
    \/ Recalc

SpecPersist == Init /\ [][NextPersist]_vars

\* The backend from its construction to close(), one call at a time: the
\* initial pass, the passes of the timer and sync() calls over days
NextShutdown ==
    \/ Close
    \/ FailsClosed
    \/ Idle
    \/ WriteFile
    \/ TimerFires
    \/ SyncAlone
    \/ SyncStep
    \/ Compress
    \/ Recalc

SpecShutdown == InitBackend /\ [][NextShutdown]_vars

\* room for the rows that two passes over one file insert
OverlapRows == MaxSynced + 1

SyncStepOverlap ==
    \E k \in Slots : AfterListing(k) \/ AfterReadUpTo(k, OverlapRows) \/ AfterFile(k)

\* The constructor's initial pass, the passes of the debounce timer and
\* sync() calls, overlapping over the files of the tree
NextOverlap ==
    \/ WriteFile
    \/ TimerFiresAny
    \/ Sync
    \/ SyncStepOverlap
    \/ Compress
    \/ Recalc

SpecOverlap == InitBackend /\ [][NextOverlap]_vars

----------------------------------------------------------------------------
(* The backend's search *)

\* the memory id search() passes to recordAccess: the string
\* "search-query", which is the id of no row (ids are 1, 2, ...)
SearchQueryId == 0

\* the queries of search(), one word each
SearchWords == { "some", "other" }

\* SELECT DISTINCT m.* ... WHERE m.content LIKE %query% ORDER BY
\* m.importance_score DESC, m.created_at DESC LIMIT ?
searchMemories(d, query, limit) ==
    LET S    == { i \in Ids(d) : query \in Mem(d)[i].content }
        rank == [i \in S |-> 0 - (Mem(d)[i].importanceScore * 1000000
                                    + Mem(d)[i].createdAt * 10) + i]
        all  == SetToSeqBy(S, rank)
    IN  SubSeq(all, 1, IF Len(all) < limit THEN Len(all) ELSE limit)

\* StructuredMemoryBackend.search: recordAccess("search-query", "search",
\* query), then searchMemories and the mapping of its rows to results
search(d, t, query, maxResults) ==
    IF recordAccessThrows(d, SearchQueryId)
    THEN [ db |-> d, outcome |-> "rejected", results |-> <<>> ]
    ELSE LET d1 == recordAccess(d, t, SearchQueryId, "search")
         IN  [ db |-> d1, outcome |-> "returned",
               results |-> searchMemories(d1, query, maxResults) ]

Search ==
    /\ ~ closed
    /\ \E query \in SearchWords :
          LET r == search(db, now, query, 10)
          IN  /\ db' = r.db
              /\ last' = [NoOp EXCEPT !.op = "search", !.outcome = r.outcome,
                                      !.before = Ids(db),
                                      !.selected = Range(searchMemories(db, query, 10)),
                                      !.promoted = Range(r.results),
                                      !.rows = Mem(db),
                                      !.logBefore = db.memory_access_log,
                                      !.at = now]
    /\ UNCHANGED <<now, fs, pass, debounceTimer, closed, seen, timing>>

RECURSIVE RecordEach(_, _, _)
\* for (const memory of matchingMemories) recordAccess(memory.id, "read")
RecordEach(d, t, ids) ==
    IF ids = <<>> THEN d
    ELSE RecordEach(recordAccess(d, t, Head(ids), "read"), t, Tail(ids))

\* StructuredMemoryBackend.readFile: the rows searchMemories returns for no
\* query, filtered to the path; each is logged as read, and with no such
\* row the file system is read and the store is left alone
readFile(d, t, relPath) ==
    LET S    == { i \in Ids(d) : Mem(d)[i].sourcePath = relPath }
        rank == [i \in S |-> 0 - (Mem(d)[i].importanceScore * 1000000
                                    + Mem(d)[i].createdAt * 10) + i]
    IN  RecordEach(d, t, SetToSeqBy(S, rank))

ReadFile ==
    /\ ~ closed
    /\ Len(db.memory_access_log) < MaxLog
    /\ \E relPath \in Paths \cup {"external"} :
          /\ db' = readFile(db, now, relPath)
          /\ last' = [NoOp EXCEPT !.op = "readFile", !.path = relPath,
                                  !.before = Ids(db),
                                  !.logBefore = db.memory_access_log]
    /\ UNCHANGED <<now, fs, pass, debounceTimer, closed, seen, timing>>

\* the facade's reads and searches on a database whose rows are deleted
NextAccess ==
    \/ RecordAccess
    \/ Search
    \/ ReadFile
    \/ DeleteMemory

SpecAccess == InitStored /\ [][NextAccess]_vars

\* searches on a database that holds notes
NextSearch ==
    \/ Tick
    \/ RecordAccess
    \/ Search

SpecSearch == InitStored /\ [][NextSearch]_vars

----------------------------------------------------------------------------
(* The debounce timer in time: watcher events and the timer's callback on
   the event loop's clock *)

\* sync.debounceMs
DebounceMs == 1500

\* the clock of the timed behaviours stops here
MaxMs == 6000

\* the most watcher events that set the timer again before it fires
MaxEvents == 3

\* the time between two steps of the event loop
ClockSteps == { 500, 1000, 1500 }

\* (mutant) a timer that is left as it is when one is pending
scheduleSyncDue_KeepPending(due, t) == IF due >= 0 THEN due ELSE t + DebounceMs

\* scheduleSync: clearTimeout(this.debounceTimer), then
\* setTimeout(..., this.config.debounceMs): the new timer's due time
scheduleSyncDue(due, t) == t + DebounceMs

\* the watcher emits add, change or unlink: scheduleSync().  When a timer
\* is due at this moment its callback runs first (the event loop runs the
\* timers before it polls for I/O events).
WatcherEvent ==
    /\ Watching
    /\ ~ (debounceTimer = "pending" /\ timerDue = clockMs)
    /\ debounceTimer = "pending" => burst.events < MaxEvents
    /\ debounceTimer' = scheduleSync
    /\ timerDue' = scheduleSyncDue(IF debounceTimer = "pending" THEN timerDue ELSE -1,
                                   clockMs)
    /\ burst' = IF debounceTimer = "pending"
                THEN [burst EXCEPT !.events = @ + 1, !.lastEvent = clockMs]
                ELSE [NoBurst EXCEPT !.events = 1, !.firstEvent = clockMs,
                                     !.lastEvent = clockMs]
    /\ last' = NoOp
    /\ UNCHANGED <<now, db, fs, pass, closed, seen, clockMs>>

\* the timer's callback runs at its due time: syncFromMarkdown() is entered
TimerDue ==
    /\ debounceTimer = "pending"
    /\ timerDue = clockMs
    /\ \E k \in Slots :
          /\ FreeSlot(k)
          /\ pass' = [pass EXCEPT ![k] =
                         [IdlePass EXCEPT !.pc = "listing", !.kind = "syncFromMarkdown"]]
    /\ debounceTimer' = "fired"
    /\ timerDue' = -1
    /\ burst' = [burst EXCEPT !.starts = @ + 1, !.startedAt = clockMs]
    /\ last' = NoOp
    /\ UNCHANGED <<now, db, fs, closed, seen, clockMs>>

\* time passes, up to the next due timer
Advance ==
    /\ \E step \in ClockSteps :
          /\ clockMs + step <= MaxMs
          /\ debounceTimer = "pending" => clockMs + step <= timerDue
          /\ clockMs' = clockMs + step
    /\ UNCHANGED <<now, db, fs, pass, debounceTimer, closed, seen, last, timerDue, burst>>

\* the listing of a started pass arrives and the pass goes on
ListingArrives == \E k \in Slots : AfterListing(k)

NextDebounce ==
    \/ WatcherEvent
    \/ TimerDue
    \/ Advance
    \/ ListingArrives

SpecDebounce == Init /\ [][NextDebounce]_vars

----------------------------------------------------------------------------
(* Scoring: the store's and the backend's scoring operations, with the
   scores and weights a caller may pass *)

\* the most recordAccess calls of the scoring behaviours
MaxAccess == 1

\* importanceScore arguments of createMemory and updateMemory, in hundredths:
\* the parameter is a number, nothing narrows it
ScoreInputs == {-20, 0, 50, 100, 150}

\* query.importanceWeight and query.recencyWeight, in hundredths
Weights == {0, 30, 100}

\* the query string, split at white space
Queries == { <<"some">>, <<"some", "other">> }

\* the days on which the clock is read
ScoreDays == { StartDay, StartDay + 1, StartDay + 31, StartDay + 40 }

\* Math.min(1, Math.max(0, score)), with score in ten-thousandths
calculateRelevanceScore(row, t, query, importanceWeight, recencyWeight) ==
    LET ageInDays    == t - row.createdAt
        recencyScore == (Max(0, 30 - ageInDays) * 100 * recencyWeight) \div 30
        matchCount   == Cardinality({ i \in DOMAIN query : query[i] \in row.content })
        textScore    == ((matchCount * 100) \div Len(query))
                           * (100 - importanceWeight - recencyWeight)
        score        == row.importanceScore * importanceWeight + recencyScore + textScore
    IN  IF score > 10000 THEN 10000 ELSE Max(0, score)

\* The scoring behaviours follow one record from its creation on:
\* recalculateImportance and calculateRelevanceScore compute each row's
\* score from that row alone.
CreateScored ==
    /\ Ids(db) = {}
    /\ \E sc \in ScoreInputs :
          db' = createMemory(db, now,
                  [ content          |-> {"some", "text"},
                    sourcePath       |-> "external",
                    memoryType       |-> "note",
                    importanceLevel  |-> "medium",
                    importanceScore  |-> sc,
                    tags             |-> <<>> ])
    /\ last' = [NoOp EXCEPT !.op = "create", !.before = Ids(db)]
    /\ UNCHANGED <<now, fs, pass, debounceTimer, closed, seen, timing>>

\* StructuredMemoryStore.updateMemory(id, { importanceScore })
UpdateScore ==
    /\ \E id \in Ids(db), sc \in ScoreInputs :
          /\ sc # Mem(db)[id].importanceScore
          /\ db' = updateMemory(db, now, id, [importanceScore |-> sc])
    /\ last' = [NoOp EXCEPT !.op = "update", !.before = Ids(db)]
    /\ UNCHANGED <<now, fs, pass, debounceTimer, closed, seen, timing>>

AccessScored ==
    /\ Len(db.memory_access_log) < MaxAccess
    /\ \E id \in Ids(db) : db' = recordAccess(db, now, id, "read")
    /\ last' = [NoOp EXCEPT !.op = "access", !.before = Ids(db)]
    /\ UNCHANGED <<now, fs, pass, debounceTimer, closed, seen, timing>>

\* StructuredMemoryStore.recalculateImportance; `since` is the time since
\* the call before it when nothing but time has passed between the two
Recalculate ==
    /\ Ids(db) # {}
    /\ db' = recalculateImportance(db, now)
    /\ last' = [NoOp EXCEPT !.op = "recalculate", !.before = Ids(db),
                            !.rows = Mem(db), !.at = now,
                            !.since = IF last.op = "recalculate"
                                      THEN now - last.at ELSE -1]
    /\ UNCHANGED <<now, fs, pass, debounceTimer, closed, seen, timing>>

\* the backend scores one candidate of a search
Relevance ==
    /\ \E id \in Ids(db), q \in Queries, wi \in Weights, wr \in Weights :
          last' = [NoOp EXCEPT !.op = "relevance", !.selected = {id},
                      !.score = calculateRelevanceScore(Mem(db)[id], now, q, wi, wr)]
    /\ UNCHANGED <<now, db, fs, pass, debounceTimer, closed, seen, timing>>

\* time passes; a recalculation stays the last operation seen
Elapse ==
    /\ \E t \in ScoreDays : t > now /\ now' = t
    /\ last' = IF last.op = "recalculate" THEN last ELSE NoOp
    /\ UNCHANGED <<db, fs, pass, debounceTimer, closed, seen, timing>>

NextScore ==
    \/ CreateScored
    \/ UpdateScore
    \/ AccessScored
    \/ Recalculate
    \/ Relevance
    \/ Elapse

SpecScore == Init /\ [][NextScore]_vars

----------------------------------------------------------------------------
(* Tags: memories created with tags, their tag sets replaced, and deleted *)

\* the most rows ever created in the tag behaviours
MaxTagged == 2

\* the tags arguments of createMemory and updateMemory
TagLists == { <<>>, <<"work">>, <<"home">>, <<"work", "home">> }

CreateTagged ==
    /\ db.nextId <= MaxTagged
    /\ \E tags \in TagLists :
          db' = createMemory(db, now,
                  [ content          |-> {"some", "text"},
                    sourcePath       |-> "external",
                    memoryType       |-> "note",
                    importanceLevel  |-> "medium",
                    importanceScore  |-> 50,
                    tags             |-> tags ])
    /\ last' = [NoOp EXCEPT !.op = "create", !.before = Ids(db)]
    /\ UNCHANGED <<now, fs, pass, debounceTimer, closed, seen, timing>>

\* StructuredMemoryStore.updateMemory(id, { tags })
SetTags ==
    /\ \E id \in Ids(db), tags \in TagLists :
          /\ db' = updateMemory(db, now, id, [tags |-> tags])
          /\ last' = [NoOp EXCEPT !.op = "setTags", !.before = Ids(db),
                                  !.selected = {id}, !.refs = RefsTo(db, {id})]
    /\ UNCHANGED <<now, fs, pass, debounceTimer, closed, seen, timing>>

DeleteTagged ==
    /\ \E id \in Ids(db) :
          /\ db' = deleteMemory(db, id)
          /\ last' = [NoOp EXCEPT !.op = "delete", !.before = Ids(db),
                                  !.selected = {id}, !.refs = RefsTo(db, {id})]
    /\ UNCHANGED <<now, fs, pass, debounceTimer, closed, seen, timing>>

NextTags ==
    \/ CreateTagged
    \/ SetTags
    \/ DeleteTagged

SpecTags == Init /\ [][NextTags]_vars

----------------------------------------------------------------------------
(* Updates: updateMemory with each of the fields its callers supply *)

\* the updates argument of updateMemory
UpdateInputs ==
    { [content |-> {"other", "text"}],
      [summary |-> "short"],
      [memoryType |-> "fact"],
      [importanceLevel |-> "high"],
      [tags |-> <<"work">>],
      [compressionLevel |-> 1],
      [compressionLevel |-> 0],
      [content |-> {"other"}, tags |-> <<"home">>],
      [importanceLevel |-> "low", compressionLevel |-> 2] }

\* what updateMemory returns: null for an id that has no row, else
\* getMemory(id) after the update
updateMemoryReturns(d, id) == IF id \notin Ids(d) THEN "null" ELSE "memory"

\* StructuredMemoryStore.updateMemory(id, updates), on the ids of rows and
\* on the id no row has yet
UpdateMemory ==
    /\ \E id \in Ids(db) \cup {db.nextId}, updates \in UpdateInputs :
          /\ db' = updateMemory(db, now, id, updates)
          /\ last' = [NoOp EXCEPT !.op = "update", !.before = Ids(db),
                                  !.id = id, !.fields = DOMAIN updates,
                                  !.outcome = updateMemoryReturns(db, id),
                                  !.rows = Mem(db), !.dbBefore = db, !.at = now]
    /\ UNCHANGED <<now, fs, pass, debounceTimer, closed, seen, timing>>

\* createMemory with tags; the update behaviours follow one record at a
\* time, so that every combination of its columns stays within reach
CreateUpdated ==
    /\ Ids(db) = {}
    /\ CreateTagged

NextUpdate ==
    \/ Later
    \/ CreateUpdated
    \/ UpdateMemory
    \/ DeleteTagged

SpecUpdate == Init /\ [][NextUpdate]_vars

----------------------------------------------------------------------------
(* Compression levels: the store's updates, compaction and reconciliation
   on a database that holds notes *)

\* StructuredMemoryStore.updateMemory(id, { compressionLevel }) with a
\* level below the one the record has
UpdateLevel ==
    /\ \E id \in Ids(db), level \in 0 .. 1 :
          /\ level < Mem(db)[id].compressionLevel
          /\ db' = updateMemory(db, now, id, [compressionLevel |-> level])
          /\ last' = [NoOp EXCEPT !.op = "update", !.before = Ids(db),
                                  !.id = id, !.fields = {"compressionLevel"},
                                  !.level = level, !.rows = Mem(db), !.at = now]
    /\ UNCHANGED <<now, fs, pass, debounceTimer, closed, seen, timing>>

NextLevels ==
    \/ Tick
    \/ UpdateLevel
    \/ StartCompress
    \/ Compress
    \/ WriteFile
    \/ CallSync
    \/ SyncStep

SpecLevels == InitStored /\ [][NextLevels]_vars

----------------------------------------------------------------------------
(* Properties of the compaction pipeline *)

IsSummaryOf(d, k, level) ==
    /\ Mem(d)[k].memoryType = "summary"
    /\ Mem(d)[k].compressionLevel = level
    /\ Mem(d)[k].compressedFrom # <<>>

\* C1: after a weekly pass has promoted a group, every source record of the
\* group still exists and reports compressionLevel = 1.
C1_WeeklySourcesMarked ==
    last.op = "weekly" =>
        \A g \in last.promoted : \A id \in g :
            id \in Ids(db) /\ Mem(db)[id].compressionLevel = 1

\* C2: a weekly pass selects no record that a weekly summary existing before
\* the pass was compressed from, and no two weekly summaries have the same
\* compressedFrom set.
C2_NoReselection ==
    last.op = "weekly" =>
        /\ \A s \in last.selected :
              ~ \E k \in last.before \cap Ids(db) :
                  IsSummaryOf(db, k, 1) /\ s.id \in Range(Mem(db)[k].compressedFrom)
        /\ \A a, b \in Ids(db) :
              ( /\ IsSummaryOf(db, a, 1) /\ IsSummaryOf(db, b, 1)
                /\ Range(Mem(db)[a].compressedFrom) = Range(Mem(db)[b].compressedFrom) )
              => a = b

\* C3: after a monthly pass has promoted a group of n records, none of the n
\* is in the store and the record count has changed by 1 - n per group.
C3_MonthlySourcesRemoved ==
    last.op = "monthly" =>
        /\ \A g \in last.promoted : g \cap Ids(db) = {}
        /\ Cardinality(Ids(db)) =
              Cardinality(last.before) + Cardinality(last.promoted)
                - Cardinality(UNION last.promoted)

\* C4: the archival stage never selects, and never retypes, a record whose
\* compressionLevel is less than 2.
C4_ArchiveOnlyLevel2 ==
    last.op = "archive" =>
        /\ \A s \in last.selected : s.level >= 2
        /\ \A g \in last.promoted : \A id \in g :
              \A s \in last.selected : s.id = id => s.level >= 2

\* C5: the monthly stage puts no level-0 record in a group, and lists none
\* in a monthly summary's compressedFrom.
C5_MonthlyNoLevel0 ==
    last.op = "monthly" =>
        /\ \A s \in last.selected : s.level # 0
        /\ \A k \in last.newIds \cap Ids(db) :
              \A s \in last.selected :
                  s.id \in Range(Mem(db)[k].compressedFrom) => s.level # 0

\* C6: the weekly stage never selects a record of compressionLevel > 0 and
\* the monthly stage never selects a record of compressionLevel > 1.
C6_StageLevelCeiling ==
    /\ last.op = "weekly"  => \A s \in last.selected : s.level <= 0
    /\ last.op = "monthly" => \A s \in last.selected : s.level <= 1

\* a monthly stage has selected records while a level-2 record that is no
\* summary and is older than the stage's cutoff was left out
C6_Witness ==
    /\ last.op = "monthly"
    /\ last.selected # {}
    /\ \E i \in Ids(db) :
          /\ Mem(db)[i].compressionLevel = 2
          /\ Mem(db)[i].memoryType # "summary"
          /\ Mem(db)[i].createdAt < now - WeeklyToMonthlyDays
          /\ i \notin { s.id : s \in last.selected }

----------------------------------------------------------------------------
(* Properties of the reconciler *)

\* C7: when syncFile handles a file that it handled before with the outcome
\* "added" (the path had no row then), and neither the file nor the rows of
\* its path were changed in between, the outcome is "unchanged" and the
\* call inserts and removes no row.
C7_SecondPassUnchanged ==
    (/\ last.op = "syncFile"
     /\ last.prev = << [file |-> last.file[1], outcome |-> "added"] >>)
    => (last.outcome = "unchanged" /\ Ids(db) = last.before)

\* the claim's "small edit": Jaccard similarity of the word sets >= 0.7
SmallEdit(old, new) ==
    10 * Cardinality(old \cap new) >= 7 * Cardinality(old \cup new)

\* one-to-one assignments of the parsed sections to the rows
Matchings(sections, rows) ==
    { f \in [DOMAIN sections -> rows] :
        /\ \A j1, j2 \in DOMAIN sections : f[j1] = f[j2] => j1 = j2
        /\ \A r \in rows : \E j \in DOMAIN sections : f[j] = r }

\* C8: when syncFile has handled an edited file whose path had k rows, and
\* each of the k parsed sections is a small edit of a distinct one of those
\* rows, the path has exactly those k rows afterwards, each holding the
\* content of its section.
C8_EditedInPlace ==
    (/\ last.op = "syncFile"
     /\ last.outcome = "updated"
     /\ DOMAIN last.rowsBefore # {}
     /\ \E f \in Matchings(last.parsed, DOMAIN last.rowsBefore) :
           \A j \in DOMAIN last.parsed :
              SmallEdit(last.rowsBefore[f[j]], last.parsed[j].content))
    => (/\ RowsOfPath(db, last.path) = DOMAIN last.rowsBefore
        /\ \E f \in Matchings(last.parsed, DOMAIN last.rowsBefore) :
              \A j \in DOMAIN last.parsed :
                 /\ SmallEdit(last.rowsBefore[f[j]], last.parsed[j].content)
                 /\ Mem(db)[f[j]].content = last.parsed[j].content)

\* C9: every tag link, access-log row and relation edge refers to a row of
\* structured_memories; after a delete nothing refers to the deleted ids.
C9_NoOrphans ==
    /\ \A l \in db.memory_tags : l[1] \in Ids(db)
    /\ \A r \in Range(db.memory_access_log) : r.memoryId \in Ids(db)
    /\ \A e \in db.memory_relations : e[1] \in Ids(db) /\ e[2] \in Ids(db)
    /\ last.op \in {"delete", "syncDone"} => RefsTo(db, last.selected) = <<{}, {}>>

\* a pass has removed the rows of a vanished file, and tag links and
\* access-log rows referred to them
C9_Witness ==
    /\ last.op = "syncDone"
    /\ last.selected # {}
    /\ last.refs[1] # {}
    /\ last.refs[2] # {}

\* deleteMemory has removed a row that tag links and access-log rows referred to
C9_DeleteCase ==
    /\ last.op = "delete"
    /\ last.refs[1] # {}
    /\ last.refs[2] # {}

----------------------------------------------------------------------------
(* Properties of the backend *)

\* C10: at any time at most one reconciliation or compaction pass is
\* executing: the initial sync of the constructor, a pass started by the
\* debounce timer and a manual sync() never overlap.
C10_OnePassAtATime == Cardinality(InFlight) <= 1

\* C11: close() leaves no debounce timer pending, and once the backend is
\* closed no reconciliation or compaction call starts: a timer that was
\* pending when close() was called never fires.
C11_NoPassAfterClose ==
    [][/\ closed' => debounceTimer' # "pending"
       /\ closed => \A k \in Slots : pass[k].pc = "idle" => pass'[k].pc = "idle"]_vars

\* close() has been called while the debounce timer was pending
C11_Witness ==
    /\ closed
    /\ last.op = "close"
    /\ last.outcome = "pending"

----------------------------------------------------------------------------
(* Properties of the engine under failures *)

StageMinimum(op) == IF op = "weekly" THEN MinMemoriesForSummary ELSE MinMonthlyGroup

FailedKeys(groups, faults, min) ==
    { key \in EligibleKeys(groups, min) : FaultOf(faults, key) \in Throws }

\* the rows that are a summary of exactly these members, among `ids`
SummariesOf(d, ids, members) ==
    { i \in ids \cap Ids(d) :
        Mem(d)[i].memoryType = "summary" /\ Mem(d)[i].compressedFrom = members }

\* C12: after a weekly or monthly stage in which the try block of some
\* groups threw, the stage's error count is the number of those groups,
\* every other eligible group has its summary, nothing written before the
\* throw is undone, no row is lost, and the call goes on to the next stage.
C12_GroupsFailIndependently ==
    last.op \in {"weekly", "monthly"} =>
       LET min    == StageMinimum(last.op)
           failed == FailedKeys(last.groups, last.faults, min)
       IN  /\ last.errors = Cardinality(failed)
           /\ \A j \in DOMAIN last.groups :
                 LET g == last.groups[j]
                 IN  Len(g.members) >= min =>
                        IF FaultOf(last.faults, g.key) \in {"none", "update"}
                        THEN Cardinality(SummariesOf(db, last.newIds, g.members)) = 1
                        ELSE SummariesOf(db, last.newIds, g.members) = {}
           /\ last.before \subseteq Ids(db)
           /\ \E k \in Slots :
                 pass[k].pc = (IF last.op = "weekly" THEN "monthly" ELSE "archive")

\* a weekly stage has had two eligible groups, one whose try block threw
\* and one whose did not
C12_Witness ==
    /\ last.op = "weekly"
    /\ \E k1, k2 \in EligibleKeys(last.groups, MinMemoriesForSummary) :
          /\ FaultOf(last.faults, k1) \in Throws
          /\ FaultOf(last.faults, k2) = "none"

\* C18: for each eligible group of a weekly stage whose try block does not
\* throw, the stage creates exactly one new record; it has memoryType
\* summary, compressionLevel 1, compressedFrom the group's ids and the
\* highest importanceScore of the group; no other record is created.
C18_WeeklySummaryRecord ==
    last.op = "weekly" =>
       LET new      == Ids(db) \ last.before
           eligible == { j \in DOMAIN last.groups :
                           Len(last.groups[j].members) >= MinMemoriesForSummary }
           done     == { j \in eligible : FaultOf(last.faults, last.groups[j].key) = "none" }
       IN  /\ \A j \in done :
                 LET g    == last.groups[j]
                     made == { i \in new : Mem(db)[i].compressedFrom = g.members }
                 IN  /\ Cardinality(made) = 1
                     /\ \A i \in made :
                           /\ Mem(db)[i].memoryType = "summary"
                           /\ Mem(db)[i].compressionLevel = 1
                           /\ \A m \in Range(g.members) :
                                 Mem(db)[i].importanceScore >= last.rows[m].importanceScore
                           /\ \E m \in Range(g.members) :
                                 Mem(db)[i].importanceScore = last.rows[m].importanceScore
           /\ done = eligible => Cardinality(new) = Cardinality(eligible)

\* a weekly stage has summarised a group whose first member does not have
\* the group's highest score
C18_Witness ==
    /\ last.op = "weekly"
    /\ \E j \in DOMAIN last.groups :
          LET g == last.groups[j]
          IN  /\ Len(g.members) >= MinMemoriesForSummary
              /\ FaultOf(last.faults, g.key) = "none"
              /\ \E m \in Range(g.members) :
                    last.rows[m].importanceScore > last.rows[g.members[1]].importanceScore
              /\ \E i \in Ids(db) \ last.before : Mem(db)[i].compressedFrom = g.members

\* C19: a weekly group with fewer records than the configured minimum is
\* skipped: no new record is made from any of its records, none of its
\* records is modified, all stay at level 0 and the next weekly pass
\* selects them again.
C19_SmallGroupSkipped ==
    last.op = "weekly" =>
       \A j \in DOMAIN last.groups :
          LET g == last.groups[j]
          IN  Len(g.members) < MinMemoriesForSummary =>
                 /\ \A i \in Ids(db) \ last.before :
                       Range(Mem(db)[i].compressedFrom) \cap Range(g.members) = {}
                 /\ \A m \in Range(g.members) :
                       /\ Mem(db)[m] = last.rows[m]
                       /\ Mem(db)[m].compressionLevel = 0
                       /\ m \in Range(getMemoriesForCompression(
                                        db, now - DailyToWeeklyDays, 0, 1000))

\* a weekly stage has found a group below the minimum next to a group it
\* has summarised
C19_Witness ==
    /\ last.op = "weekly"
    /\ last.created > 0
    /\ \E j \in DOMAIN last.groups : Len(last.groups[j].members) < MinMemoriesForSummary

\* C20: the archive stage sets memoryType to archive on exactly the rows it
\* selected that were not accessed after the cutoff, and changes neither
\* their content nor their compressionLevel; it creates no record; a
\* selected row accessed after the cutoff is left as it is and the next
\* pass selects it again; a row that was not selected is left as it is.
C20_ArchiveFrame ==
    last.op = "archive" =>
       LET cutoff   == now - ArchiveAfterDays
           selected == { e.id : e \in last.selected }
           recent   == { i \in selected : last.rows[i].accessedAt > cutoff }
       IN  /\ Ids(db) = last.before
           /\ \A i \in selected \ recent :
                 /\ Mem(db)[i].memoryType = "archive"
                 /\ Mem(db)[i].content = last.rows[i].content
                 /\ Mem(db)[i].compressionLevel = last.rows[i].compressionLevel
           /\ \A i \in recent :
                 /\ Mem(db)[i] = last.rows[i]
                 /\ i \in Range(getMemoriesForCompression(db, cutoff, 2, 1000))
           /\ \A i \in last.before \ selected : Mem(db)[i] = last.rows[i]

\* an archive stage has retyped one selected row and left another, accessed
\* after the cutoff, as it was
C20_Witness ==
    /\ last.op = "archive"
    /\ \E i, k \in { e.id : e \in last.selected } :
          /\ last.rows[i].memoryType # "archive"
          /\ Mem(db)[i].memoryType = "archive"
          /\ last.rows[k].accessedAt > now - ArchiveAfterDays
          /\ Mem(db)[k].memoryType # "archive"

----------------------------------------------------------------------------
(* Properties of the reconciler under failures *)

\* C13: when the read of a listed file fails during the reconciliation of a
\* sync() call, the file is skipped and the call goes on: it is still in
\* flight, about to count the file and to take the next one.
C13_FileFailureSkipped ==
    (last.op = "syncFailed" /\ last.kind = "sync") =>
       /\ pass[last.slot].kind = "sync"
       /\ pass[last.slot].pc = "resume"

----------------------------------------------------------------------------
(* Properties of the scores *)

\* C14: in every reachable state, whatever scores createMemory and
\* updateMemory were given, every stored importanceScore lies in [0,1].
C14_StoredScoreInRange ==
    \A i \in Ids(db) :
       Mem(db)[i].importanceScore >= 0 /\ Mem(db)[i].importanceScore <= 100

\* C15: a scoring operation yields a value in [0,1]: after
\* recalculateImportance every stored score is in [0,1], and the query-time
\* relevance score of a record is in [0,1], for any weights in [0,1], any
\* access count and any age.
C15_ScoringInRange ==
    /\ last.op = "recalculate" =>
          \A i \in Ids(db) :
             Mem(db)[i].importanceScore >= 0 /\ Mem(db)[i].importanceScore <= 100
    /\ last.op = "relevance" => (last.score >= 0 /\ last.score <= 10000)

\* a recalculation of an accessed row whose score was 1: the sum of the
\* terms is above 1 and the stored score is 1
C15_Witness ==
    /\ last.op = "recalculate"
    /\ \E i \in last.before :
          /\ last.rows[i].importanceScore = 100
          /\ last.rows[i].accessCount > 0
          /\ Mem(db)[i].importanceScore = 100

\* C16: for a row that was never accessed, the second of two successive
\* recalculateImportance calls separated by time does not raise the score
\* the first one left.
C16_UnaccessedNeverRises ==
    (last.op = "recalculate" /\ last.since > 0) =>
       \A i \in last.before :
          last.rows[i].accessCount = 0 =>
             Mem(db)[i].importanceScore <= last.rows[i].importanceScore

\* C33: a recalculateImportance that directly follows another one at the
\* same clock value, with no access in between, leaves every record's
\* importanceScore as the first one left it.
C33_RecalculationIdempotent ==
    (last.op = "recalculate" /\ last.since = 0) =>
       \A i \in last.before :
          Mem(db)[i].importanceScore = last.rows[i].importanceScore

----------------------------------------------------------------------------
(* Properties of the tags *)

\* C17: after any sequence of creations, tag-set replacements and
\* deletions, every tag's memoryCount is the number of memories linked to
\* the tag.
C17_TagCountsMatchLinks ==
    \A t \in DOMAIN db.tags :
       db.tags[t] = Cardinality({ l \in db.memory_tags : l[2] = t })

----------------------------------------------------------------------------
(* Properties of the reconciler's removal step *)

\* C21: when a reconciliation pass has finished, the store holds no record
\* of a path that was in the store when the pass read the stored paths and
\* is not in the pass's listing, and the rows the removal step deleted are
\* of paths that are not in the listing.
C21_VanishedPathsRemoved ==
    last.op = "syncDone" =>
       /\ \A i \in Ids(db) :
             Mem(db)[i].sourcePath \notin (last.existingPaths \ last.listed)
       /\ last.removedPaths \cap last.listed = {}
       /\ last.before \ Ids(db) = last.selected

\* a pass has removed the rows of a path that is no longer listed
C21_Witness ==
    /\ last.op = "syncDone"
    /\ last.selected # {}
    /\ last.existingPaths \ last.listed # {}

----------------------------------------------------------------------------
(* Properties of the debounce window *)

\* C22: the watcher events of a burst, each less than debounceMs after the
\* one before, start exactly one reconciliation pass, debounceMs after the
\* last event of the burst: while the timer is pending no pass of the burst
\* has started and the timer is due debounceMs after the last event; once
\* it has fired, the burst has started one pass, at that time.
C22_BurstCoalesced ==
    /\ debounceTimer = "pending" =>
          /\ burst.starts = 0
          /\ timerDue = burst.lastEvent + DebounceMs
          /\ clockMs <= timerDue
    /\ debounceTimer = "fired" =>
          /\ burst.starts = 1
          /\ burst.startedAt = burst.lastEvent + DebounceMs

\* a burst of several events, the last one later than the first, has
\* started its pass
C22_Witness ==
    /\ debounceTimer = "fired"
    /\ burst.events >= 2
    /\ burst.starts = 1
    /\ burst.lastEvent > burst.firstEvent

----------------------------------------------------------------------------
(* Properties of sync() *)

\* C23: within a sync() call compaction starts only in the step that ends
\* the reconciliation, the stages of compaction follow one another, and
\* the recalculation starts only in the step that ends the last stage of
\* compaction; no step takes the call back to the reconciliation.
C23_PhasesInOrder ==
    [][\A k \in Slots :
          (pass[k].kind = "sync" /\ pass'[k].kind = "sync" /\ pass'[k].pc # pass[k].pc) =>
             /\ pass'[k].pc \in {"listing", "read", "resume"} =>
                   pass[k].pc \in {"listing", "read", "resume"}
             /\ pass'[k].pc = "weekly" =>
                   (pass[k].pc \in {"listing", "resume"} /\ last'.op = "syncDone")
             /\ pass'[k].pc = "monthly" => pass[k].pc = "weekly"
             /\ pass'[k].pc = "archive" => pass[k].pc = "monthly"
             /\ pass'[k].pc = "recalc" =>
                   (pass[k].pc = "archive" /\ last'.op = "archive")]_vars

\* a sync() call has come to its recalculation
C23_Witness ==
    \E k \in Slots : pass[k].kind = "sync" /\ pass[k].pc = "recalc"

----------------------------------------------------------------------------
(* Properties of search *)

\* C24: a search() for a query that rows of the store match returns, and
\* every row it returns has one more access-log entry with action search,
\* an accessCount one higher and accessedAt at the time of the search.
C24_SearchResultsLogged ==
    (last.op = "search" /\ last.selected # {}) =>
       /\ last.outcome = "returned"
       /\ last.promoted # {}
       /\ \A i \in last.promoted :
             /\ Mem(db)[i].accessCount = last.rows[i].accessCount + 1
             /\ Mem(db)[i].accessedAt = last.at
             /\ Len(SelectSeq(db.memory_access_log,
                              LAMBDA e : e.memoryId = i /\ e.action = "search"))
                  = Len(SelectSeq(last.logBefore,
                                  LAMBDA e : e.memoryId = i /\ e.action = "search")) + 1

----------------------------------------------------------------------------
(* Properties of updateMemory *)

\* C25: updateMemory on an id that is not in the store returns null and
\* leaves every record, tag, tag link and access-log row as it was.
C25_UnknownIdUntouched ==
    (last.op = "update" /\ last.id \notin last.before) =>
       /\ last.outcome = "null"
       /\ db = last.dbBefore

C25_Witness ==
    /\ last.op = "update"
    /\ last.id \notin last.before
    /\ "tags" \in last.fields
    /\ db.memory_tags # {}

\* C26: an updateMemory call on an existing record that supplies at least
\* one field sets the record's updatedAt to the time of the call and
\* leaves its createdAt as it was.
C26_UpdateStampsUpdatedAt ==
    (last.op = "update" /\ last.id \in last.before /\ last.fields # {}) =>
       /\ last.id \in Ids(db)
       /\ Mem(db)[last.id].updatedAt = last.at
       /\ Mem(db)[last.id].createdAt = last.rows[last.id].createdAt

\* C27: no step of the store, of compaction or of reconciliation lowers the
\* compressionLevel of a record.
C27_LevelNeverDecreases ==
    [][\A i \in Ids(db) \cap Ids(db') :
          Mem(db')[i].compressionLevel >= Mem(db)[i].compressionLevel]_vars

C27_Witness ==
    /\ last.op = "update"
    /\ last.id \in Ids(db)
    /\ last.rows[last.id].compressionLevel >= 1
    /\ last.level < last.rows[last.id].compressionLevel
    /\ Mem(db)[last.id].compressionLevel = last.rows[last.id].compressionLevel

\* C28: after a weekly or monthly stage in which generateSummary returned
\* no summary for a group, the store holds no summary record of that group
\* and every source of the group is there with all its columns as before.
C28_NoSummaryGroupSkipped ==
    last.op \in {"weekly", "monthly"} =>
       \A j \in DOMAIN last.groups :
          LET g == last.groups[j]
          IN  (/\ Len(g.members) >= StageMinimum(last.op)
               /\ FaultOf(last.faults, g.key) = "null") =>
                 /\ SummariesOf(db, Ids(db) \ last.before, g.members) = {}
                 /\ \A i \in Range(g.members) :
                       i \in Ids(db) /\ Mem(db)[i] = last.rows[i]

\* a monthly stage has had a group for which generateSummary returned null
C28_Witness ==
    /\ last.op = "monthly"
    /\ \E k1 \in EligibleKeys(last.groups, MinMonthlyGroup) :
          FaultOf(last.faults, k1) = "null"

----------------------------------------------------------------------------
(* Properties of parseDuration *)

\* the number a string of decimal digits denotes
NumberOf(ds) ==
    LET n == Len(ds)
        Pow10[e \in 0 .. n] == IF e = 0 THEN 1 ELSE 10 * Pow10[e - 1]
        Sum[j \in 0 .. n] ==
            IF j = 0 THEN 0
            ELSE Sum[j - 1] + (CASE ds[j] = "0" -> 0 [] ds[j] = "2" -> 2 [] ds[j] = "4" -> 4
                                 [] ds[j] = "7" -> 7 [] ds[j] = "9" -> 9) * Pow10[n - j]
    IN  Sum[n]

\* C30: parseDuration returns number x 86400000 for digits followed by d,
\* number x 3600000 for h and number x 60000 for m ("7d" gives 604800000,
\* "24h" gives 86400000), and throws for every other string, "9x" among
\* them.
C30_ParseDuration ==
    last.op = "parseDuration" =>
       LET s  == last.parsed
           n  == Len(s)
           ds == SubSeq(s, 1, n - 1)
           wellFormed == /\ n >= 2
                         /\ \A j \in 1 .. n - 1 : s[j] \in {"0", "2", "4", "7", "9"}
                         /\ s[n] \in {"d", "h", "m"}
       IN  /\ wellFormed =>
                /\ ~ last.threw
                /\ s[n] = "d" => last.value = NumberOf(ds) * (86400000 \div MsPerMinute)
                /\ s[n] = "h" => last.value = NumberOf(ds) * (3600000 \div MsPerMinute)
                /\ s[n] = "m" => last.value = NumberOf(ds) * (60000 \div MsPerMinute)
           /\ ~ wellFormed => last.threw
           /\ s = <<"7", "d">> => last.value * MsPerMinute = 604800000
           /\ s = <<"2", "4", "h">> => last.value * MsPerMinute = 86400000
           /\ s = <<"9", "x">> => last.threw

C30_Witness ==
    /\ last.op = "parseDuration"
    /\ last.parsed = <<"2", "4", "h">>
    /\ ~ last.threw

----------------------------------------------------------------------------
(* Properties of the matching of sections *)

\* C31: a parsed section is matched to the existing record (and updates it)
\* exactly when |A \cap B| / |A \cup B| of the two word sets is at least 0.7.
C31_JaccardThreshold ==
    last.op = "findSection" =>
       LET a == last.file[1]
           b == last.parsed[1]
       IN  (last.outcome = "existing")
             <=> (10 * Cardinality(a \cap b) >= 7 * Cardinality(a \cup b))

----------------------------------------------------------------------------
(* Properties of the grouping by week *)

\* the Monday that starts the week of day z (day 0, 1970-01-01, is a Thursday)
MondayOf(z) == z - ((z + 3) % 7)

\* C32: the weekly stage puts two records in one group if and only if
\* their createdAt dates lie in the same Monday-starting week.
C32_GroupedByIsoWeek ==
    last.op = "groupByWeek" =>
       ((last.outcome = "same") <=> (MondayOf(last.file[1]) = MondayOf(last.file[2])))

----------------------------------------------------------------------------
(* Properties of sync() over several calls *)

\* C34: the step that ends a reconciliation (the removal of the records of
\* paths absent from the listing) deletes no summary that compaction created.
C34_SummariesSurviveSync ==
    [][last'.op = "syncDone" =>
         \A i \in Ids(db) :
            (Mem(db)[i].memoryType = "summary" /\ Mem(db)[i].compressedFrom # <<>>)
               => i \in Ids(db')]_vars

\* C36: once close() has returned, no step of a reconciliation, compaction
\* or recalculation reads or writes the store: the store stays as close()
\* left it and a call that was in flight ends at its next statement.
C36_NoStoreAccessAfterClose ==
    [][closed => (db' = db /\ last'.op \in {"none", "failsClosed"})]_vars

\* a sync() call that was compacting when close() was called has ended on
\* the closed connection
C36_Witness ==
    /\ closed
    /\ last.op = "failsClosed"
    /\ Ids(db) # {}
    /\ InFlight = {}

----------------------------------------------------------------------------
(* Properties of the archive stage over months *)

\* C40: after the archive stage, every record that had compressionLevel 2,
\* was created more than archiveAfter before and was never accessed has
\* memoryType archive; in particular a monthly summary.
C40_ColdLevelTwoArchived ==
    last.op = "archive" =>
       \A i \in last.before :
          (/\ last.rows[i].compressionLevel = 2
           /\ last.rows[i].createdAt < now - ArchiveAfterDays
           /\ last.rows[i].accessCount = 0)
             => Mem(db)[i].memoryType = "archive"

----------------------------------------------------------------------------
(* Properties of the reconciliation of an edited file *)

\* C38: when syncFile handles a file that the pass before handled with the
\* outcome "updated", and neither the file nor the rows of its path were
\* changed in between, the outcome is "unchanged" and no row is inserted
\* or updated.
C38_ConvergesAfterEdit ==
    (/\ last.op = "syncFile"
     /\ last.prev = << [file |-> last.file[1], outcome |-> "updated"] >>)
    => (last.outcome = "unchanged" /\ Ids(db) = last.before)

\* C39: after syncFile has handled an edited file, the rows of its path
\* correspond one-to-one to the sections parsed from it: a row whose
\* section is no longer in the file has been removed.
C39_RemovedSectionsDeleted ==
    (last.op = "syncFile" /\ last.outcome = "updated")
       => \E f \in Matchings(last.parsed, RowsOfPath(db, last.path)) :
             \A j \in DOMAIN last.parsed :
                Mem(db)[f[j]].content = last.parsed[j].content

----------------------------------------------------------------------------
(* Properties of the access log *)

\* C37: every row of memory_access_log has the id of a row of
\* structured_memories as its memoryId, also after the recordAccess calls
\* of the facade's search and readFile and after deletes.
C37_LogRowsReferToMemories ==
    \A j \in DOMAIN db.memory_access_log :
       db.memory_access_log[j].memoryId \in DOMAIN Mem(db)

\* readFile has logged the rows of a path, a search followed and one of
\* the logged rows was deleted
C37_Witness ==
    /\ last.op = "delete"
    /\ last.refs[2] # {}
    /\ db.memory_access_log # <<>>

----------------------------------------------------------------------------
(* Properties of overlapping passes *)

\* C35: passes that overlap on a new file store its sections once: when a
\* pass has inserted the sections of a file as "added", the records of the
\* path are exactly as many as the sections parsed, as after a single pass.
C35_OverlapStoresOnce ==
    (last.op = "syncFile" /\ last.outcome = "added")
       => Cardinality(RowsOfPath(db, last.path)) = Len(last.parsed)

============================================================================
